---- MODULE Spec2Model ----
(***************************************************************************)
(* hawkbit DDI client: the checksum-verifying download stream              *)
(* (DownloadStreamHash), the post-hoc checks of a DownloadedArtifact, the  *)
(* parser of the polling sleep field (Polling::as_duration), and the calls *)
(* that talk to the server: Client::poll, the handles of a Reply,          *)
(* UpdatePreFetch::fetch, feedback on an Update and on a CancelAction,     *)
(* ConfigRequest::upload, and the Update itself: the deserialization of    *)
(* its deployment, its accessors, Update::download into a directory and    *)
(* the opening of streams on its artifacts.                                *)
(*                                                                         *)
(* URLs are sequences of tokens: the delimiters ":", "/" and "?" and the   *)
(* runs of text between them.  The url and reqwest crates are outside the  *)
(* repository: Url::parse, path_segments_mut, push, set_query and the      *)
(* IntoUrl of reqwest are modelled by what they do to such a URL.  The     *)
(* network is an input of each call: for each request handed to send() it  *)
(* is a transport error or a response with a status and a JSON body.  A    *)
(* request whose URL reqwest refuses is logged as handed to send() with    *)
(* built = FALSE; it fails there and reaches no server.                    *)
(*                                                                         *)
(* Strings are sequences of one-character strings, byte strings are        *)
(* sequences of small naturals.  The digest crates (md5, sha1, sha2) are   *)
(* outside the repository: they are stood in for by a streaming digest     *)
(* with one initial value, one multiplier and one output size per          *)
(* algorithm, small enough to enumerate, which keeps what the code relies  *)
(* on: the output depends on the bytes fed and on their order, not on how  *)
(* they were cut into update() calls.                                      *)
(* For the checks of a DownloadedArtifact the file is taken as completely  *)
(* written: there write_all appends, read returns between 1 and            *)
(* HASH_BUFFER_SIZE of the remaining bytes, and no I/O call fails.  For    *)
(* Update::download the file system holds one file per path and the writes *)
(* of tokio's File are carried out by the blocking pool, after write_all   *)
(* has returned.                                                           *)
(*                                                                         *)
(* Two things run side by side: a second DownloadStreamHash on another     *)
(* artifact of the same Update, and the clients of two targets of the mock *)
(* server the tests use (hawkbit_mock).  The mock server holds its mocks   *)
(* in the order they were made, each with the request it answers, its      *)
(* answer and its hits; a request is answered by the first live mock that  *)
(* matches its method, path, Authorization header and JSON body, and with  *)
(* 404 when none does.  The crate that does the matching is outside the    *)
(* repository.                                                             *)
(***************************************************************************)
EXTENDS Integers, Sequences, FiniteSets, TLC

VARIABLES
    body,        \* the items the response body of the artifact GET yields, in order
    hashes,      \* ArtifactInternal.hashes: the declared md5, sha1 and sha256
    checked,     \* the DownloadStreamHash: its inner stream's position and its hasher
    emitted,     \* every Poll::Ready the DownloadStreamHash has returned, in order
    polls,       \* how often the DownloadStreamHash has been polled
    dropped,     \* the consumer has dropped the DownloadStreamHash
    plain,       \* the stream of download_stream(): its position
    plainOut,    \* every Poll::Ready the stream of download_stream() has returned
    dl,          \* Artifact::download: where it is and its position in the body
    file,        \* the file dir/filename: its bytes, or NoFile
    chk,         \* DownloadedArtifact::hash: where it is, its offset and its hasher, how
                 \* many checks were started and what the check before this one returned
    checkRet,    \* what the last check_<algo> returned
    sleep,       \* Polling.sleep, the sleep field of the poll reply
    sleepRet,    \* what Reply::polling_sleep returned
    pollBody,    \* the JSON body the server answers a poll with
    sent,        \* every request handed to the transport's send(), in order
    reply,       \* the poll::Reply the last successful Client::poll returned
    got,         \* what the last call of each accessor of the Reply returned
    updates,     \* the Update objects UpdatePreFetch::fetch has returned, in order
    ncalls,      \* how many calls of each kind of operation of the DDI client were made
    last,        \* the last call: its operation and arguments, what the network did with
                 \* its requests, the requests it handed to send() and its result
    ud,          \* Update::download: the update and directory it was called with, the
                 \* chunk and artifact it is at, the response body it is reading, what
                 \* it has requested, received and collected, and its result
    fs,          \* the file system: the directories that exist and the bytes of each file
    pend,        \* the writes handed to the blocking pool that have not been carried out
    other,       \* a second DownloadStreamHash, on another artifact of the same Update:
                 \* its body, its stream and hasher, what it has returned and its polls
    server,      \* the mock server: its mocks with their hits, and its Targets
    peers        \* the clients of the targets of the mock server: what each has sent
                 \* and was answered, and how often each has polled

vars == <<body, hashes, checked, emitted, polls, dropped, plain, plainOut,
          dl, file, chk, checkRet, sleep, sleepRet,
          pollBody, sent, reply, got, updates, ncalls, last, ud, fs, pend,
          other, server, peers>>

streamVars == <<body, hashes, checked, emitted, polls, dropped, plain, plainOut,
                dl, file, chk, checkRet>>

sleepVars == <<sleep, sleepRet>>

ddiVars == <<pollBody, sent, reply, got, updates, ncalls, last>>

diskVars == <<ud, fs, pend>>

sideVars == <<other, server, peers>>

\* Bounds of the model.
MaxItems == 2
MaxPolls == 4

Min(a, b) == IF a < b THEN a ELSE b

----------------------------------------------------------------------------
(* The DDI client before any of its operations has been called.            *)

\* A request without a body.
NoBody == [j |-> "none"]

\* No Client::poll has succeeded yet.
NoReply == [k |-> "NoReply"]

\* An operation that has not been called yet.
NotCalled == [k |-> "NotCalled"]

NoCall == [op |-> "-", args |-> <<>>, nets |-> <<>>, sends |-> <<>>, ret |-> NotCalled]

NoCalls == [poll |-> 0, access |-> 0, fetch |-> 0, feedback |-> 0, upload |-> 0, id |-> 0,
            download |-> 0, read |-> 0]

\* No Update::download has been called, nothing is on the disk and no write is under way.
NoDownload == [pc |-> "Idle"]
NoFiles == [dirs |-> {}, files |-> <<>>]

\* No second stream was opened and no mock server was started.
NoStream == [pc |-> "Idle"]
NoServer == [mocks |-> <<>>, targets |-> <<>>]

SideIdle ==
    /\ other = NoStream
    /\ server = NoServer
    /\ peers = <<>>

NothingOnDisk ==
    /\ ud = NoDownload
    /\ fs = NoFiles
    /\ pend = {}

DiskIdle ==
    /\ NothingOnDisk
    /\ SideIdle

NoHandles == [config_data_request |-> NotCalled, update |-> NotCalled,
              cancel_action |-> NotCalled]

\* A poll answer with a sleep field and no _links.
PollJsonNoLinks == [k \in {"config"} |-> [polling |-> [sleep |-> <<"0", "0", ":", "0", "1", ":", "0", "0">>]]]

\* No call of the DDI client was made.
DdiUnused ==
    /\ pollBody = PollJsonNoLinks
    /\ sent = <<>>
    /\ reply = NoReply
    /\ got = NoHandles
    /\ updates = <<>>
    /\ ncalls = NoCalls
    /\ last = NoCall

DdiIdle ==
    /\ DdiUnused
    /\ DiskIdle

----------------------------------------------------------------------------
(* Bytes, chunks and the items of a byte stream.                           *)

\* The chunks the transport may deliver (bytes::Bytes), the empty one included.
Chunks == {<<>>, <<0>>, <<1>>, <<0, 1>>}

ChecksumTypes == {"Md5", "Sha1", "Sha256"}

\* Result<Bytes, Error> and the Poll<Option<..>> around it.
OkItem(data) == [k |-> "Ok", data |-> data, e |-> "-", tag |-> "-"]
ErrItem(e, tag) == [k |-> "Err", data |-> <<>>, e |-> e, tag |-> tag]
ReadyNone == [k |-> "None", data |-> <<>>, e |-> "-", tag |-> "-"]
PollPending == [k |-> "Pending", data |-> <<>>, e |-> "-", tag |-> "-"]
\* Result<(), Error>::Ok(())
OkUnit == [k |-> "Unit", data |-> <<>>, e |-> "-", tag |-> "-"]

\* Error::ReqwestError, Error::ChecksumError(ChecksumType) and the transport's own
\* reqwest::Error.
ReqwestError == ErrItem("ReqwestError", "-")
ChecksumError(t) == ErrItem("ChecksumError", t)
TransportError == ErrItem("reqwest::Error", "-")

\* What one poll of the response body may give: a chunk, an error, or not ready yet.
BodyItems == {OkItem(c) : c \in Chunks} \cup {TransportError, PollPending}

RECURSIVE SeqsUpTo(_, _)
SeqsUpTo(S, n) ==
    IF n = 0 THEN {<<>>}
    ELSE LET shorter == SeqsUpTo(S, n - 1)
         IN  shorter \cup {Append(s, x) : s \in {t \in shorter : Len(t) = n - 1}, x \in S}

RECURSIVE Concat(_)
Concat(chunks) ==
    IF chunks = <<>> THEN <<>> ELSE Head(chunks) \o Concat(Tail(chunks))

\* The payload of the Ok items of a sequence of items, in order.
RECURSIVE OkChunks(_)
OkChunks(items) ==
    IF items = <<>> THEN <<>>
    ELSE IF Head(items).k = "Ok"
         THEN <<Head(items).data>> \o OkChunks(Tail(items))
         ELSE OkChunks(Tail(items))

RECURSIVE CountWhere(_, _, _)
CountWhere(items, k, e) ==
    IF items = <<>> THEN 0
    ELSE (IF Head(items).k = k /\ Head(items).e = e THEN 1 ELSE 0)
         + CountWhere(Tail(items), k, e)

----------------------------------------------------------------------------
(* The digest crates and the formatting of a digest.                       *)

HexChars == <<"0", "1", "2", "3", "4", "5", "6", "7",
              "8", "9", "a", "b", "c", "d", "e", "f">>

DigestIV(alg) == CASE alg = "Md5" -> 0 [] alg = "Sha1" -> 1 [] alg = "Sha256" -> 2

DigestMul(alg) == CASE alg = "Md5" -> 3 [] alg = "Sha1" -> 5 [] alg = "Sha256" -> 7

\* OutputSizeUser::OutputSize, in bytes (scaled down from 16, 20 and 32).
OutputSize(alg) == CASE alg = "Md5" -> 1 [] alg = "Sha1" -> 2 [] alg = "Sha256" -> 3

RECURSIVE Pow256(_)
Pow256(n) == IF n = 0 THEN 1 ELSE 256 * Pow256(n - 1)

\* Digest::new()
Digest_new(alg) == [alg |-> alg, st |-> DigestIV(alg)]

\* Digest::update(data): absorbs the bytes one after the other.
RECURSIVE Digest_update(_, _)
Digest_update(d, data) ==
    IF data = <<>> THEN d
    ELSE Digest_update(
             [d EXCEPT !.st = (d.st * DigestMul(d.alg) + Head(data) + 1)
                              % Pow256(OutputSize(d.alg))],
             Tail(data))

\* Digest::finalize(): the output bytes, most significant first.
RECURSIVE BytesOf(_, _)
BytesOf(v, n) ==
    IF n = 0 THEN <<>> ELSE Append(BytesOf(v \div 256, n - 1), v % 256)

Digest_finalize(d) == BytesOf(d.st, OutputSize(d.alg))

\* format!("{:x}", digest): two lower-case hexadecimal digits per byte.
RECURSIVE LowerHex(_)
LowerHex(bytes) ==
    IF bytes = <<>> THEN <<>>
    ELSE <<HexChars[(Head(bytes) \div 16) + 1], HexChars[(Head(bytes) % 16) + 1]>>
         \o LowerHex(Tail(bytes))

\* The hexadecimal digest of a byte string under an algorithm.
HexDigest(alg, bytes) == LowerHex(Digest_finalize(Digest_update(Digest_new(alg), bytes)))

----------------------------------------------------------------------------
(* DownloadHasher.                                                         *)

HASH_BUFFER_SIZE == 4096

\* A slip of new_sha256: the tag of new_sha1 left in place.
new_sha256_TagSha1(expected) == [hasher |-> Digest_new("Sha256"), expected |-> expected, error |-> "Sha1"]

\* DownloadHasher::new_md5 / new_sha1 / new_sha256
new_md5(expected) == [hasher |-> Digest_new("Md5"), expected |-> expected, error |-> "Md5"]

new_sha1(expected) == [hasher |-> Digest_new("Sha1"), expected |-> expected, error |-> "Sha1"]

new_sha256(expected) == [hasher |-> Digest_new("Sha256"), expected |-> expected, error |-> "Sha256"]

\* A slip of update: the bytes are not fed to the digest.
DownloadHasher_update_Skip(h, data) == h

\* DownloadHasher::update
DownloadHasher_update(h, data) == [h EXCEPT !.hasher = Digest_update(h.hasher, data)]

\* A slip of finalize: a hasher that was fed nothing is taken as valid.
DownloadHasher_finalize_EmptyIsValid(h) ==
    IF h.hasher = Digest_new(h.hasher.alg) THEN OkUnit
    ELSE IF LowerHex(Digest_finalize(h.hasher)) = h.expected THEN OkUnit
         ELSE ChecksumError(h.error)

\* DownloadHasher::finalize
DownloadHasher_finalize(h) ==
    LET digest == Digest_finalize(h.hasher)
    IN  IF LowerHex(digest) = h.expected THEN OkUnit ELSE ChecksumError(h.error)

----------------------------------------------------------------------------
(* The byte streams of an artifact.                                        *)

\* What polling a finite stream of `items` at position pos returns: its next item,
\* and end of input from then on.
Stream_poll_next(items, pos) ==
    IF pos <= Len(items) THEN items[pos] ELSE ReadyNone

Stream_advance(items, pos) == IF pos <= Len(items) THEN pos + 1 ELSE pos

\* Artifact::download_stream: resp.bytes_stream().map_err(|e| e.into())
download_stream(r) ==
    IF r.k = "Err" /\ r.e = "reqwest::Error" THEN ReqwestError ELSE r

\* Artifact::download_stream_with_<algo>_check: the DownloadStreamHash over a fresh
\* download_stream (position 1 of the body).
download_stream_with_md5_check(h) == [stream |-> 1, hasher |-> new_md5(h.md5)]

download_stream_with_sha1_check(h) == [stream |-> 1, hasher |-> new_sha1(h.sha1)]

download_stream_with_sha256_check(h) == [stream |-> 1, hasher |-> new_sha256(h.sha256)]

\* A slip of poll_next: an empty chunk is hashed and not passed on.
DownloadStreamHash_poll_next_SkipEmpty(me, r) ==
    CASE r.k = "Ok" ->
           [me |-> [me EXCEPT !.hasher = DownloadHasher_update(me.hasher, r.data)],
            ret |-> IF r.data = <<>> THEN PollPending ELSE OkItem(r.data)]
      [] r.k = "None" ->
           LET f == DownloadHasher_finalize(me.hasher)
           IN  [me |-> me, ret |-> IF f.k = "Unit" THEN ReadyNone ELSE f]
      [] r.k = "Err" -> [me |-> me, ret |-> r]
      [] r.k = "Pending" -> [me |-> me, ret |-> PollPending]

\* A slip of poll_next: the hash is checked in a catch-all arm, so also when the
\* inner stream is pending or fails.
DownloadStreamHash_poll_next_CatchAll(me, r) ==
    CASE r.k = "Ok" ->
           [me |-> [me EXCEPT !.hasher = DownloadHasher_update(me.hasher, r.data)],
            ret |-> OkItem(r.data)]
      [] OTHER ->
           LET f == DownloadHasher_finalize(me.hasher)
           IN  [me |-> me, ret |-> IF f.k = "Unit" THEN ReadyNone ELSE f]

\* A slip of poll_next: the hash is checked while the inner stream is pending.
DownloadStreamHash_poll_next_CheckOnPending(me, r) ==
    CASE r.k = "Ok" ->
           [me |-> [me EXCEPT !.hasher = DownloadHasher_update(me.hasher, r.data)],
            ret |-> OkItem(r.data)]
      [] r.k \in {"None", "Pending"} ->
           LET f == DownloadHasher_finalize(me.hasher)
           IN  [me |-> me, ret |-> IF f.k = "Unit" THEN ReadyNone ELSE f]
      [] r.k = "Err" -> [me |-> me, ret |-> r]

\* DownloadStreamHash::poll_next, given what the inner stream returned: the new
\* hasher and the value returned.
DownloadStreamHash_poll_next(me, r) ==
    CASE r.k = "Ok" ->
           [me |-> [me EXCEPT !.hasher = DownloadHasher_update(me.hasher, r.data)],
            ret |-> OkItem(r.data)]
      [] r.k = "None" ->
           LET f == DownloadHasher_finalize(me.hasher)
           IN  [me |-> me, ret |-> IF f.k = "Unit" THEN ReadyNone ELSE f]
      [] r.k = "Err" -> [me |-> me, ret |-> r]
      [] r.k = "Pending" -> [me |-> me, ret |-> PollPending]

\* The consumer polls the DownloadStreamHash once.
PollChecked ==
    /\ ~dropped
    /\ polls < MaxPolls
    /\ LET r == download_stream(Stream_poll_next(body, checked.stream))
           res == DownloadStreamHash_poll_next(checked, r)
       IN  /\ checked' = [res.me EXCEPT !.stream = Stream_advance(body, checked.stream)]
           /\ emitted' = IF res.ret.k = "Pending" THEN emitted ELSE Append(emitted, res.ret)
    /\ polls' = polls + 1
    /\ UNCHANGED <<body, hashes, dropped, plain, plainOut, dl, file, chk, checkRet>>
    /\ UNCHANGED <<sleepVars, sideVars>>
    /\ UNCHANGED ddiVars
    /\ UNCHANGED diskVars

\* The consumer stops polling: it drops the stream.
DropChecked ==
    /\ ~dropped
    /\ dropped' = TRUE
    /\ UNCHANGED <<body, hashes, checked, emitted, polls, plain, plainOut,
                   dl, file, chk, checkRet>>
    /\ UNCHANGED <<sleepVars, sideVars>>
    /\ UNCHANGED ddiVars
    /\ UNCHANGED diskVars

\* The consumer polls the stream of download_stream() once, up to its end.
PollPlain ==
    /\ plain <= Len(body) + 1
    /\ LET r == download_stream(Stream_poll_next(body, plain))
       IN  plainOut' = IF r.k = "Pending" THEN plainOut ELSE Append(plainOut, r)
    /\ plain' = plain + 1
    /\ UNCHANGED <<body, hashes, checked, emitted, polls, dropped, dl, file, chk, checkRet>>
    /\ UNCHANGED <<sleepVars, sideVars>>
    /\ UNCHANGED ddiVars
    /\ UNCHANGED diskVars

----------------------------------------------------------------------------
(* Artifact::download and the checks of the DownloadedArtifact.            *)

NoFile == <<"no file">>
NoHashes == [md5 |-> <<>>, sha1 |-> <<>>, sha256 |-> <<>>]

\* Artifact::download, after download_response: File::create(dir/filename).
DownloadCreate ==
    /\ dl.pc = "Start"
    /\ file' = <<>>
    /\ dl' = [dl EXCEPT !.pc = "Writing"]
    /\ UNCHANGED <<body, hashes, checked, emitted, polls, dropped, plain, plainOut,
                   chk, checkRet>>
    /\ UNCHANGED <<sleepVars, sideVars>>
    /\ UNCHANGED ddiVars
    /\ UNCHANGED diskVars

\* Artifact::download: one turn of  while let Some(chunk) = resp.chunk().await?
DownloadChunk ==
    /\ dl.pc = "Writing"
    /\ LET r == Stream_poll_next(body, dl.pos)
           next == Stream_advance(body, dl.pos)
       IN  CASE r.k = "Ok" ->
                  /\ file' = file \o r.data
                  /\ dl' = [dl EXCEPT !.pos = next]
             [] r.k = "Pending" ->
                  /\ file' = file
                  /\ dl' = [dl EXCEPT !.pos = next]
             [] r.k = "Err" ->
                  /\ file' = file
                  /\ dl' = [dl EXCEPT !.pos = next, !.pc = "Err"]
             [] r.k = "None" ->
                  /\ file' = file
                  /\ dl' = [dl EXCEPT !.pc = "Ok", !.hashes = hashes]
    /\ UNCHANGED <<body, hashes, checked, emitted, polls, dropped, plain, plainOut,
                   chk, checkRet>>
    /\ UNCHANGED <<sleepVars, sideVars>>
    /\ UNCHANGED ddiVars
    /\ UNCHANGED diskVars

\* DownloadedArtifact::check_md5 / check_sha1 / check_sha256: the hasher handed to hash().
check_md5(d) == new_md5(d.hashes.md5)

check_sha1(d) == new_sha1(d.hashes.sha1)

check_sha256(d) == new_sha256(d.hashes.sha256)

check(alg, d) ==
    CASE alg = "Md5" -> check_md5(d)
      [] alg = "Sha1" -> check_sha1(d)
      [] alg = "Sha256" -> check_sha256(d)

\* DownloadedArtifact::check_<algo> up to File::open in hash().
CheckStart(alg) ==
    /\ dl.pc = "Ok"
    /\ chk.pc = "Idle"
    /\ chk' = [pc |-> "Reading", alg |-> alg, off |-> 0, hasher |-> check(alg, dl),
               runs |-> 1, prev |-> checkRet]
    /\ UNCHANGED <<body, hashes, checked, emitted, polls, dropped, plain, plainOut,
                   dl, file, checkRet>>
    /\ UNCHANGED <<sleepVars, sideVars>>
    /\ UNCHANGED ddiVars
    /\ UNCHANGED diskVars

\* How many checks of one DownloadedArtifact the model follows.
MaxChecks == 2

\* A further DownloadedArtifact::check_<algo> on the same DownloadedArtifact, up to
\* File::open in hash().
CheckAgain(alg) ==
    /\ dl.pc = "Ok"
    /\ chk.pc = "Done"
    /\ chk.runs < MaxChecks
    /\ chk' = [pc |-> "Reading", alg |-> alg, off |-> 0, hasher |-> check(alg, dl),
               runs |-> chk.runs + 1, prev |-> checkRet]
    /\ UNCHANGED <<body, hashes, checked, emitted, polls, dropped, plain, plainOut,
                   dl, file, checkRet>>
    /\ UNCHANGED <<sleepVars, sideVars>>
    /\ UNCHANGED ddiVars
    /\ UNCHANGED diskVars

\* DownloadedArtifact::hash, after the loop: hasher.finalize()
hash_finalize(c) == [alg |-> c.alg, ret |-> DownloadHasher_finalize(c.hasher)]

\* A slip of the read loop: hasher.update(&buffer) in place of &buffer[..n], which
\* feeds the zeroed rest of the buffer too (one byte of it stands for the rest).
hash_update_WholeBuffer(h, f, off, n) ==
    DownloadHasher_update(h, SubSeq(f, off + 1, off + n) \o <<0>>)

\* DownloadedArtifact::hash: hasher.update(&buffer[..n]) after a read of n bytes at
\* offset off.
hash_update(h, f, off, n) == DownloadHasher_update(h, SubSeq(f, off + 1, off + n))

\* A read loop that truncates the file when the check fails.
CheckRead_TruncateOnMismatch ==
    /\ chk.pc = "Reading"
    /\ LET left == Len(file) - chk.off
       IN  IF left = 0
           THEN /\ checkRet' = hash_finalize(chk)
                /\ chk' = [chk EXCEPT !.pc = "Done"]
                /\ file' = IF hash_finalize(chk).ret = OkUnit THEN file ELSE <<>>
           ELSE \E n \in 1..Min(left, HASH_BUFFER_SIZE) :
                /\ chk' = [chk EXCEPT
                             !.hasher = hash_update(chk.hasher, file, chk.off, n),
                             !.off = chk.off + n]
                /\ checkRet' = checkRet
                /\ file' = file
    /\ UNCHANGED <<body, hashes, checked, emitted, polls, dropped, plain, plainOut, dl>>
    /\ UNCHANGED <<sleepVars, sideVars>>
    /\ UNCHANGED ddiVars
    /\ UNCHANGED diskVars

\* DownloadedArtifact::hash: one turn of the read loop; a read of 0 bytes ends it.
CheckRead ==
    /\ chk.pc = "Reading"
    /\ LET left == Len(file) - chk.off
       IN  IF left = 0
           THEN /\ checkRet' = hash_finalize(chk)
                /\ chk' = [chk EXCEPT !.pc = "Done"]
           ELSE \E n \in 1..Min(left, HASH_BUFFER_SIZE) :
                /\ chk' = [chk EXCEPT
                             !.hasher = hash_update(chk.hasher, file, chk.off, n),
                             !.off = chk.off + n]
                /\ checkRet' = checkRet
    /\ UNCHANGED <<body, hashes, checked, emitted, polls, dropped, plain, plainOut,
                   dl, file>>
    /\ UNCHANGED <<sleepVars, sideVars>>
    /\ UNCHANGED ddiVars
    /\ UNCHANGED diskVars

----------------------------------------------------------------------------
(* The artifacts and declared hashes the model runs over.                  *)

\* The bytes of another artifact, whose digests serve as wrong declared hashes.
OtherContent == <<1, 1, 0>>

Bodies == SeqsUpTo(BodyItems, MaxItems)

\* The declared hash of an algorithm: the digest of the bytes served, or another one.
Declared(alg, content) == {HexDigest(alg, content), HexDigest(alg, OtherContent)}

DeclaredHashes(content) ==
    [md5 : Declared("Md5", content),
     sha1 : Declared("Sha1", content),
     sha256 : Declared("Sha256", content)]

NotRun == [alg |-> "-", ret |-> PollPending]

NoSleep == [k |-> "NotCalled", secs |-> <<>>]

download_stream_with_check(alg, h) ==
    CASE alg = "Md5" -> download_stream_with_md5_check(h)
      [] alg = "Sha1" -> download_stream_with_sha1_check(h)
      [] alg = "Sha256" -> download_stream_with_sha256_check(h)

InitArtifact ==
    /\ body \in Bodies
    /\ hashes \in DeclaredHashes(Concat(OkChunks(body)))
    /\ \E alg \in ChecksumTypes : checked = download_stream_with_check(alg, hashes)
    /\ emitted = <<>>
    /\ polls = 0
    /\ dropped = FALSE
    /\ plain = 1
    /\ plainOut = <<>>
    /\ dl = [pc |-> "Start", pos |-> 1, hashes |-> NoHashes]
    /\ file = NoFile
    /\ chk = [pc |-> "Idle", alg |-> "-", off |-> 0, hasher |-> new_md5(<<>>),
              runs |-> 0, prev |-> NotRun]
    /\ checkRet = NotRun
    /\ sleep = <<>>
    /\ sleepRet = NoSleep
    /\ DdiIdle

\* The two streams of one artifact, polled in any interleaving.
NextStream ==
    \/ PollChecked
    \/ DropChecked
    \/ PollPlain

SpecStream == InitArtifact /\ [][NextStream]_vars

\* The two verification modes on one artifact: the checksum-verifying stream, and
\* download to a file followed by check_<algo>, in any interleaving.
NextVerify ==
    \/ PollChecked
    \/ DownloadCreate
    \/ DownloadChunk
    \/ \E alg \in ChecksumTypes : CheckStart(alg)
    \/ CheckRead

SpecVerify == InitArtifact /\ [][NextVerify]_vars

\* Download to a file followed by any checks of the DownloadedArtifact, one after
\* the other.
NextRecheck ==
    \/ DownloadCreate
    \/ DownloadChunk
    \/ \E alg \in ChecksumTypes : CheckStart(alg)
    \/ CheckRead
    \/ \E alg \in ChecksumTypes : CheckAgain(alg)

SpecRecheck == InitArtifact /\ [][NextRecheck]_vars

----------------------------------------------------------------------------
(* Properties of the checksum-verifying stream and of the post-hoc checks. *)

IsChecksumError(x) == x.k = "Err" /\ x.e = "ChecksumError"

ChecksumErrors(items) == CountWhere(items, "Err", "ChecksumError")

IsPrefix(a, b) == Len(a) <= Len(b) /\ SubSeq(b, 1, Len(a)) = a

\* The algorithm of the DownloadStreamHash: its digest type T.
StreamAlg == checked.hasher.hasher.alg

HashOf(h, alg) ==
    CASE alg = "Md5" -> h.md5 [] alg = "Sha1" -> h.sha1 [] alg = "Sha256" -> h.sha256

\* The inner stream has reported end of input to the DownloadStreamHash: each poll
\* takes one item of the body until none is left, and the polls after that get None.
InnerEnded == polls > Len(body)

\* The items of the body each stream has taken so far.
TakenByChecked == checked.stream - 1
TakenByPlain == Min(plain, Len(body) + 1) - 1

\* The first item with which the DownloadStreamHash ended: Ready(None) or a checksum
\* error.
IsEnd(x) == x.k = "None" \/ IsChecksumError(x)
StreamEnded == \E i \in 1..Len(emitted) : IsEnd(emitted[i])
StreamOutcome ==
    emitted[CHOOSE i \in 1..Len(emitted) :
                /\ IsEnd(emitted[i])
                /\ \A j \in 1..(i - 1) : ~IsEnd(emitted[j])]

\* C1: the Ok chunks of the checksum-verifying stream are, item by item and in order,
\* the Ok chunks of download_stream() over the same body: at every moment one
\* sequence is a prefix of the other, and they are equal whenever both streams have
\* taken the same number of items, whether or not the declared hash matches.
C1_SameChunksAsPlainStream ==
    LET a == OkChunks(emitted)
        b == OkChunks(plainOut)
    IN  /\ TakenByChecked <= TakenByPlain => IsPrefix(a, b)
        /\ TakenByPlain <= TakenByChecked => IsPrefix(b, a)

\* C1 witness: both streams were read to the end of a body of two chunks, one of them
\* empty, and the checked one ended with a checksum error.
C1_Witness ==
    /\ InnerEnded
    /\ plain > Len(body) + 1
    /\ Len(OkChunks(emitted)) = 2
    /\ \E i \in 1..Len(body) : body[i] = OkItem(<<>>)
    /\ ChecksumErrors(emitted) > 0

\* C2: a checksum error is emitted only after every chunk of the inner sequence has
\* been emitted as an Ok item, and no Ok item follows it.
C2_ErrorAfterAllChunks ==
    \A i \in 1..Len(emitted) :
        IsChecksumError(emitted[i]) =>
            /\ OkChunks(SubSeq(emitted, 1, i - 1)) = OkChunks(body)
            /\ \A j \in (i + 1)..Len(emitted) : emitted[j].k # "Ok"

\* C2 witness: two chunks were delivered, then the checksum error.
C2_Witness ==
    /\ Len(emitted) = 3
    /\ emitted[1].k = "Ok" /\ emitted[2].k = "Ok"
    /\ IsChecksumError(emitted[3])

\* C3 (as claimed): at most one checksum error is ever emitted by one stream, however
\* often the consumer polls after the end of input.
C3_AtMostOneChecksumError == ChecksumErrors(emitted) <= 1

\* C4 (as claimed): once the stream has emitted an error of the inner sequence, no
\* checksum error is emitted on a later poll.
C4_NoChecksumErrorAfterInnerError ==
    \A i \in 1..Len(emitted) : \A j \in (i + 1)..Len(emitted) :
        emitted[i] = ReqwestError => ~IsChecksumError(emitted[j])

C6_OwnAlgorithm ==
    /\ StreamEnded =>
          StreamOutcome =
              IF HexDigest(StreamAlg, Concat(OkChunks(emitted))) = HashOf(hashes, StreamAlg)
              THEN ReadyNone ELSE ChecksumError(StreamAlg)
    /\ chk.pc = "Done" =>
          /\ checkRet.alg = chk.alg
          /\ checkRet.ret =
                 IF HexDigest(chk.alg, file) = HashOf(dl.hashes, chk.alg)
                 THEN OkUnit ELSE ChecksumError(chk.alg)

\* C6 witness: the declared md5 is right and the declared sha256 is wrong; the md5
\* stream ended cleanly and check_sha256 failed with the tag Sha256.
C6_Witness ==
    /\ Len(file) = 2
    /\ hashes.md5 = HexDigest("Md5", file)
    /\ hashes.sha256 # HexDigest("Sha256", file)
    /\ StreamAlg = "Md5" /\ StreamEnded /\ StreamOutcome = ReadyNone
    /\ chk.pc = "Done" /\ chk.alg = "Sha256"
    /\ checkRet.ret = ChecksumError("Sha256")

\* The body ends without an error and without a chunk.
NoChunkBody == \A i \in 1..Len(body) : body[i].k = "Pending"

\* C7: for a zero-length artifact the digest of the empty input is compared with the
\* declared hash: the stream ends cleanly, and the check of the empty file returns
\* Ok, only if they are equal, and with a checksum error otherwise.
C7_EmptyIsCompared ==
    /\ (NoChunkBody /\ InnerEnded) =>
          /\ emitted # <<>>
          /\ \A i \in 1..Len(emitted) :
                emitted[i] = IF HashOf(hashes, StreamAlg) = HexDigest(StreamAlg, <<>>)
                             THEN ReadyNone ELSE ChecksumError(StreamAlg)
    /\ (chk.pc = "Done" /\ file = <<>>) =>
          checkRet.ret = IF HashOf(dl.hashes, chk.alg) = HexDigest(chk.alg, <<>>)
                         THEN OkUnit ELSE ChecksumError(chk.alg)

\* C7 witness: the body held no chunk, the declared hashes are those of another
\* artifact, and both the stream and the check of the empty file failed.
C7_Witness ==
    /\ NoChunkBody /\ InnerEnded
    /\ chk.pc = "Done" /\ file = <<>> /\ chk.alg = StreamAlg
    /\ IsChecksumError(checkRet.ret)
    /\ IsChecksumError(emitted[1])

\* C8: a checksum error is emitted only by a poll, and only by one to which the inner
\* sequence answers end of input; a stream dropped before that has emitted none and
\* emits none.
C8_ChecksumErrorOnlyAtEndOfInput ==
    [][ChecksumErrors(emitted') > ChecksumErrors(emitted) =>
           /\ ~dropped
           /\ Stream_poll_next(body, checked.stream).k = "None"]_vars

\* C8 witness: the consumer dropped a stream whose declared hash is wrong after one
\* chunk of two.
C8_Witness ==
    /\ dropped
    /\ Len(body) = 2 /\ polls = 1 /\ Len(OkChunks(emitted)) = 1
    /\ HashOf(hashes, StreamAlg) # HexDigest(StreamAlg, Concat(OkChunks(body)))
    /\ ChecksumErrors(emitted) = 0

----------------------------------------------------------------------------
(* Unsigned 64-bit arithmetic on decimal numerals.  A number is the        *)
(* sequence of its decimal digits, least significant first, without        *)
(* leading zeros (zero is the empty sequence), so that values beyond the   *)
(* range of u64 can be told from those within it.                          *)

Digits == <<"0", "1", "2", "3", "4", "5", "6", "7", "8", "9">>

IsDigit(c) == \E i \in 1..10 : Digits[i] = c

\* char::to_digit(10) of a decimal digit
DigitVal(c) == (CHOOSE i \in 1..10 : Digits[i] = c) - 1

RECURSIVE BigNorm(_)
BigNorm(a) ==
    IF a # <<>> /\ a[Len(a)] = 0 THEN BigNorm(SubSeq(a, 1, Len(a) - 1)) ELSE a

RECURSIVE BigOfNat(_)
BigOfNat(n) == IF n = 0 THEN <<>> ELSE <<n % 10>> \o BigOfNat(n \div 10)

\* a * k + c for a small k and c
RECURSIVE BigMulAdd(_, _, _)
BigMulAdd(a, k, c) ==
    IF a = <<>> THEN BigOfNat(c)
    ELSE LET v == Head(a) * k + c
         IN  <<v % 10>> \o BigMulAdd(Tail(a), k, v \div 10)

BigMul(a, k) == BigNorm(BigMulAdd(a, k, 0))

RECURSIVE BigAddCarry(_, _, _)
BigAddCarry(a, b, c) ==
    IF a = <<>> /\ b = <<>> THEN BigOfNat(c)
    ELSE LET x == IF a = <<>> THEN 0 ELSE Head(a)
             y == IF b = <<>> THEN 0 ELSE Head(b)
             v == x + y + c
         IN  <<v % 10>> \o BigAddCarry(IF a = <<>> THEN a ELSE Tail(a),
                                       IF b = <<>> THEN b ELSE Tail(b),
                                       v \div 10)

BigAdd(a, b) == BigNorm(BigAddCarry(a, b, 0))

\* a - b for a >= b
RECURSIVE BigSubBorrow(_, _, _)
BigSubBorrow(a, b, c) ==
    IF a = <<>> THEN <<>>
    ELSE LET y == IF b = <<>> THEN 0 ELSE Head(b)
             v == Head(a) - y - c
         IN  <<(v + 10) % 10>> \o BigSubBorrow(Tail(a),
                                               IF b = <<>> THEN b ELSE Tail(b),
                                               IF v < 0 THEN 1 ELSE 0)

BigSub(a, b) == BigNorm(BigSubBorrow(a, b, 0))

\* a < b, both without leading zeros
RECURSIVE BigLess(_, _)
BigLess(a, b) ==
    IF Len(a) # Len(b) THEN Len(a) < Len(b)
    ELSE IF a = <<>> THEN FALSE
         ELSE IF a[Len(a)] # b[Len(b)] THEN a[Len(a)] < b[Len(b)]
              ELSE BigLess(SubSeq(a, 1, Len(a) - 1), SubSeq(b, 1, Len(b) - 1))

\* The value of a string of decimal digits.
RECURSIVE BigOfDigits(_)
BigOfDigits(s) ==
    IF s = <<>> THEN <<>>
    ELSE BigNorm(<<DigitVal(s[Len(s)])>> \o BigOfDigits(SubSeq(s, 1, Len(s) - 1)))

\* 2^64 = 18446744073709551616
TwoPow64 == <<6, 1, 6, 1, 5, 5, 9, 0, 7, 3, 7, 0, 4, 4, 7, 6, 4, 4, 8, 1>>

FitsU64(a) == BigLess(a, TwoPow64)

\* a mod 2^64 for a < 2 * k * 2^64, k a power of two: k * 2^64 is taken off where it
\* fits, then half of it, down to 2^64.
RECURSIVE WrapStep(_, _)
WrapStep(a, k) ==
    IF k = 0 THEN a
    ELSE LET m == BigMul(TwoPow64, k)
         IN  WrapStep(IF BigLess(a, m) THEN a ELSE BigSub(a, m), k \div 2)

\* a mod 2^64 for the results of one u64 operation of as_duration (below 64 * 2^64)
WrapU64(a) == IF FitsU64(a) THEN a ELSE WrapStep(a, 32)

\* The u64 operators * and +: the value as wrapped to 64 bits, and whether the exact
\* result overflowed.
U64Mul(a, k) ==
    LET exact == BigMul(a, k) IN [v |-> WrapU64(exact), overflow |-> ~FitsU64(exact)]

U64Add(a, b) ==
    LET exact == BigAdd(a, b) IN [v |-> WrapU64(exact), overflow |-> ~FitsU64(exact)]

\* <u64 as FromStr>::from_str: the digits are accumulated with checked_mul and
\* checked_add; a leading '+' is accepted, a '-', an empty string and any other
\* character are not.
RECURSIVE from_str_digits(_, _)
from_str_digits(s, acc) ==
    IF s = <<>> THEN [ok |-> TRUE, v |-> acc]
    ELSE IF ~IsDigit(Head(s)) THEN [ok |-> FALSE, v |-> <<>>]
         ELSE LET next == BigAdd(BigMul(acc, 10), BigOfNat(DigitVal(Head(s))))
              IN  IF ~FitsU64(next) THEN [ok |-> FALSE, v |-> <<>>]
                  ELSE from_str_digits(Tail(s), next)

u64_from_str(s) ==
    IF s = <<>> THEN [ok |-> FALSE, v |-> <<>>]
    ELSE IF Head(s) \in {"+", "-"} /\ Len(s) = 1 THEN [ok |-> FALSE, v |-> <<>>]
         ELSE IF Head(s) = "+" THEN from_str_digits(Tail(s), <<>>)
              ELSE from_str_digits(s, <<>>)

----------------------------------------------------------------------------
(* Reply::polling_sleep.                                                   *)

\* str::split(':')
RECURSIVE split(_)
split(s) ==
    IF \E i \in 1..Len(s) : s[i] = ":"
    THEN LET i == CHOOSE i \in 1..Len(s) : s[i] = ":" /\ \A j \in 1..(i - 1) : s[j] # ":"
         IN  <<SubSeq(s, 1, i - 1)>> \o split(SubSeq(s, i + 1, Len(s)))
    ELSE <<s>>

\* Result<Duration, Error> of polling_sleep, and the panic of an overflowing
\* operation in a build with overflow checks.
OkDuration(secs) == [k |-> "Ok", secs |-> secs]
InvalidSleep == [k |-> "InvalidSleep", secs |-> <<>>]
Panicked == [k |-> "Panic", secs |-> <<>>]

\* A slip of as_duration: the hours are multiplied by 60 once.
Polling_as_duration_HoursTimes60(s, checks) ==
    LET parts == split(s)
        times == [i \in 1..Len(parts) |-> u64_from_str(parts[i])]
    IN  IF Len(parts) # 3 THEN InvalidSleep
        ELSE IF times[1].ok /\ times[2].ok /\ times[3].ok
             THEN LET h60 == U64Mul(times[1].v, 60)
                      m60 == U64Mul(times[2].v, 60)
                      hm == U64Add(h60.v, m60.v)
                      hms == U64Add(hm.v, times[3].v)
                  IN  IF checks /\ (h60.overflow \/ m60.overflow
                                    \/ hm.overflow \/ hms.overflow)
                      THEN Panicked
                      ELSE OkDuration(hms.v)
             ELSE OkDuration(<<>>)

\* Polling::as_duration: h * 60 * 60 + m * 60 + s in u64, where an operation that
\* overflows panics in a build with overflow checks and wraps in one without.
\* times holds one parse result per component, so times.len() is Len(parts).
Polling_as_duration(s, checks) ==
    LET parts == split(s)
        times == [i \in 1..Len(parts) |-> u64_from_str(parts[i])]
    IN  IF Len(parts) # 3 THEN InvalidSleep
        ELSE IF times[1].ok /\ times[2].ok /\ times[3].ok
             THEN LET h60 == U64Mul(times[1].v, 60)
                      h3600 == U64Mul(h60.v, 60)
                      m60 == U64Mul(times[2].v, 60)
                      hm == U64Add(h3600.v, m60.v)
                      hms == U64Add(hm.v, times[3].v)
                  IN  IF checks /\ (h60.overflow \/ h3600.overflow \/ m60.overflow
                                    \/ hm.overflow \/ hms.overflow)
                      THEN Panicked
                      ELSE OkDuration(hms.v)
             ELSE OkDuration(<<>>)

\* Reply::polling_sleep, in a build with overflow checks (debug) or without (release).
PollingSleep ==
    /\ sleepRet.k = "NotCalled"
    /\ \E checks \in BOOLEAN : sleepRet' = Polling_as_duration(sleep, checks)
    /\ UNCHANGED <<sleep, sideVars>>
    /\ UNCHANGED streamVars
    /\ UNCHANGED ddiVars
    /\ UNCHANGED diskVars

\* The components the sleep fields of the model are made of: small numbers with and
\* without a leading zero or sign, text, nothing, the largest number of hours whose
\* seconds fit 64 bits, the next one, and 2^64.
SleepParts ==
    {<<>>, <<"0">>, <<"0", "5">>, <<"a">>, <<"+", "5">>,
     <<"5", "1", "2", "4", "0", "9", "5", "5", "7", "6", "0", "3", "0", "4", "3", "1">>,
     <<"5", "1", "2", "4", "0", "9", "5", "5", "7", "6", "0", "3", "0", "4", "3", "2">>,
     <<"1", "8", "4", "4", "6", "7", "4", "4", "0", "7", "3", "7", "0", "9", "5", "5", "1", "6", "1", "6">>}

MaxParts == 4

RECURSIVE JoinColon(_)
JoinColon(parts) ==
    IF Len(parts) = 1 THEN parts[1]
    ELSE parts[1] \o <<":">> \o JoinColon(Tail(parts))

SleepFields == {JoinColon(ps) : ps \in SeqsUpTo(SleepParts, MaxParts) \ {<<>>}}

InitSleep ==
    /\ sleep \in SleepFields
    /\ sleepRet = NoSleep
    /\ body = <<>>
    /\ hashes = NoHashes
    /\ checked = download_stream_with_md5_check(NoHashes)
    /\ emitted = <<>>
    /\ polls = 0
    /\ dropped = FALSE
    /\ plain = 1
    /\ plainOut = <<>>
    /\ dl = [pc |-> "Start", pos |-> 1, hashes |-> NoHashes]
    /\ file = NoFile
    /\ chk = [pc |-> "Idle", alg |-> "-", off |-> 0, hasher |-> new_md5(<<>>),
              runs |-> 0, prev |-> NotRun]
    /\ checkRet = NotRun
    /\ DdiIdle

NextSleep == PollingSleep

SpecSleep == InitSleep /\ [][NextSleep]_vars

----------------------------------------------------------------------------
(* Properties of polling_sleep.                                            *)

IsDigits(c) == c # <<>> /\ \A i \in 1..Len(c) : IsDigit(c[i])

\* A non-negative integer as written: digits, with or without a leading '+'.
IsNumeral(c) == IsDigits(c) \/ (c # <<>> /\ Head(c) = "+" /\ IsDigits(Tail(c)))

NumeralValue(c) == IF Head(c) = "+" THEN BigOfDigits(Tail(c)) ELSE BigOfDigits(c)

\* The sleep field is h:m:s with three non-negative integers.
WellFormedSleep ==
    /\ Len(split(sleep)) = 3
    /\ \A i \in 1..3 : IsNumeral(split(sleep)[i])

\* h*3600 + m*60 + s, exactly.
ExactSeconds ==
    BigAdd(BigAdd(BigMul(NumeralValue(split(sleep)[1]), 3600),
                  BigMul(NumeralValue(split(sleep)[2]), 60)),
           NumeralValue(split(sleep)[3]))

SleepCalled == sleepRet.k # "NotCalled"

\* C9 (as claimed): for every sleep field h:m:s of three non-negative integers,
\* polling_sleep returns exactly h*3600 + m*60 + s seconds.
C9_ExactSecondsForEveryNumeral ==
    (SleepCalled /\ WellFormedSleep) => sleepRet = OkDuration(ExactSeconds)

\* C9 (amended): for every sleep field h:m:s of three non-negative integers with
\* h*3600 + m*60 + s below 2^64, polling_sleep returns exactly that many seconds.
C9_ExactSecondsWithin64Bits ==
    (SleepCalled /\ WellFormedSleep /\ FitsU64(ExactSeconds)) =>
        sleepRet = OkDuration(ExactSeconds)

\* C9 witness: 05:05:05 gave 18305 seconds.
C9_Witness ==
    /\ sleep = JoinColon(<<<<"0", "5">>, <<"0", "5">>, <<"0", "5">>>>)
    /\ sleepRet = OkDuration(BigOfNat(18305))

\* C10 (as claimed): a sleep field that does not split on ':' into exactly three
\* components that are each a non-negative integer fails with InvalidSleep.
C10_MalformedIsInvalidSleep ==
    (SleepCalled /\ ~WellFormedSleep) => sleepRet = InvalidSleep

----------------------------------------------------------------------------
(* URLs and the transport.  A URL string is a sequence of the delimiters    *)
(* ":", "/" and "?" and of runs of other text.  url::Url and reqwest are    *)
(* outside the repository; they are modelled as far as the client relies   *)
(* on them: parsing, path_segments_mut().push(), set_query(None),           *)
(* serialization, and send() with error_for_status().                      *)

None == [some |-> FALSE]
Some(v) == [some |-> TRUE, v |-> v]

Ok(v) == [k |-> "Ok", v |-> v]
Err(e) == [k |-> "Err", e |-> e]

UrlDelims == {":", "/", "?"}
SpecialSchemes == {"http", "https"}

\* The position of the first element of s that is in set, or Len(s) + 1.
RECURSIVE FirstIn(_, _)
FirstIn(s, set) ==
    IF s = <<>> THEN 1
    ELSE IF Head(s) \in set THEN 1
    ELSE 1 + FirstIn(Tail(s), set)

RECURSIVE SkipSlashes(_)
SkipSlashes(s) ==
    IF s # <<>> /\ Head(s) = "/" THEN SkipSlashes(Tail(s)) ELSE s

\* What follows the authority: the path up to the query, and the query.
UrlPathOf(s) == SubSeq(s, 1, FirstIn(s, {"?"}) - 1)

UrlQueryAt(s, q) == IF q > Len(s) THEN None ELSE Some(SubSeq(s, q + 1, Len(s)))

UrlQueryOf(s) == UrlQueryAt(s, FirstIn(s, {"?"}))

DefaultSlash(path) == IF path = <<>> THEN <<"/">> ELSE path

\* The path and the query of a URL; the path of an http URL is at least "/".
Url_parse_path(scheme, host, after, special, cannot_be_a_base) ==
    Ok([scheme |-> scheme, host |-> host,
        path |-> IF special THEN DefaultSlash(UrlPathOf(after)) ELSE UrlPathOf(after),
        query |-> UrlQueryOf(after), cannot_be_a_base |-> cannot_be_a_base])

\* The host ends at position h of r; an http URL needs one.
Url_parse_host(scheme, r, h, special) ==
    IF special /\ h = 1 THEN Err("EmptyHost")
    ELSE Url_parse_path(scheme, Some(SubSeq(r, 1, h - 1)), SubSeq(r, h, Len(r)),
                        special, FALSE)

Url_parse_authority(scheme, r, special) ==
    Url_parse_host(scheme, r, FirstIn(r, {"/", "?"}), special)

\* What follows "scheme:": for http and https any slashes and the authority; for
\* other schemes "//authority", "/path" without a host, or an opaque path that
\* cannot be a base.
Url_parse_rest(scheme, rest) ==
    IF scheme \in SpecialSchemes THEN Url_parse_authority(scheme, SkipSlashes(rest), TRUE)
    ELSE IF Len(rest) >= 2 /\ rest[1] = "/" /\ rest[2] = "/"
    THEN Url_parse_authority(scheme, SubSeq(rest, 3, Len(rest)), FALSE)
    ELSE IF rest # <<>> /\ rest[1] = "/"
    THEN Url_parse_path(scheme, None, rest, FALSE, FALSE)
    ELSE Url_parse_path(scheme, None, rest, FALSE, TRUE)

\* url::Url::parse: there must be a scheme.
Url_parse(s) ==
    IF ~(Len(s) >= 2 /\ s[1] \notin UrlDelims /\ s[2] = ":")
    THEN Err("RelativeUrlWithoutBase")
    ELSE Url_parse_rest(s[1], SubSeq(s, 3, Len(s)))

\* Url::to_string
Url_to_string(u) ==
    <<u.scheme, ":">> \o (IF u.host.some THEN <<"/", "/">> \o u.host.v ELSE <<>>)
    \o u.path \o (IF u.query.some THEN <<"?">> \o u.query.v ELSE <<>>)

\* Url::path_segments_mut: an error for a URL that cannot be a base.
Url_path_segments_mut(u) == IF u.cannot_be_a_base THEN Err("()") ELSE Ok(u)

\* PathSegmentsMut::push: a "/" unless the path is just "/", then the segment.
PathSegmentsMut_push(u, segment) ==
    [u EXCEPT !.path = IF Len(u.path) = 1 THEN u.path \o <<segment>>
                       ELSE u.path \o <<"/", segment>>]

\* Url::set_query(None)
Url_set_query_None(u) == [u EXCEPT !.query = None]

\* reqwest's IntoUrl: the URL must have a host.
IntoUrl_url(u) == IF u.k = "Ok" /\ u.v.host.some THEN Ok(u.v) ELSE Err("builder")

\* reqwest's IntoUrl for a string: it must parse, too.
IntoUrl(s) == IntoUrl_url(Url_parse(s))

RequestBuilder_url(client, method, url, u) ==
    [method |-> method, built |-> u.k = "Ok",
     url |-> IF u.k = "Ok" THEN Url_to_string(u.v) ELSE url,
     auth |-> client.auth]

\* reqwest::Client::get/post/put(url): the request as built, or the builder's error.
\* The default headers of the client carry the Authorization of the target.
RequestBuilder(client, method, url) == RequestBuilder_url(client, method, url, IntoUrl(url))

\* What send() gives: a reqwest::Error, or a response with a status and a body.
SendError == [k |-> "Err", status |-> 0, body |-> NoBody]
Response(status, json) == [k |-> "Resp", status |-> status, body |-> json]

Statuses == {200, 500}

\* Response::error_for_status: 4xx and 5xx are errors.
error_for_status(resp) == resp.status >= 400 /\ resp.status <= 599

\* RequestBuilder::send: a builder error is returned at once, otherwise the network
\* decides: the transport fails or the server answers.
send(req, net) == IF req.built THEN net ELSE SendError

\* One request and its body, as a call reports it.
OneRequest(req, json) == <<[req |-> req, body |-> json]>>

\* Error::ParseUrlError(url::ParseError)
ParseUrlError(e) == ErrItem("ParseUrlError", e)

----------------------------------------------------------------------------
(* JSON as serde_json writes and reads it: an object is a function from    *)
(* its keys, so that a key that is left out differs from a key whose value *)
(* is null.                                                                *)

JsonNull == [j |-> "null"]
JsonString(s) == [j |-> "string", s |-> s]

\* A body no structure of the client deserializes from.
BadJson == [k \in {"error"} |-> JsonString("x")]

\* The values a caller may pass where the client takes any T: Serialize: the unit
\* value, a structure, and Option of these.
Unit == [t |-> "()"]
Struct(b) == [t |-> "struct", awesome |-> b]

\* serde_json::to_value: None and () are written as null, Some(v) as v.
RECURSIVE to_json(_)
to_json(x) ==
    IF "some" \in DOMAIN x THEN (IF x.some THEN to_json(x.v) ELSE JsonNull)
    ELSE IF x = Unit THEN JsonNull
    ELSE [j |-> "object", awesome |-> x.awesome]

Executions == {"Closed", "Proceeding", "Canceled", "Scheduled", "Rejected", "Resumed"}
Finisheds == {"Success", "Failure", "None"}
Modes == {"Merge", "Replace", "Remove"}

\* #[serde(rename_all = "lowercase")] on Execution, Finished and Mode
Execution_serialize(e) ==
    CASE e = "Closed" -> JsonString("closed")
      [] e = "Proceeding" -> JsonString("proceeding")
      [] e = "Canceled" -> JsonString("canceled")
      [] e = "Scheduled" -> JsonString("scheduled")
      [] e = "Rejected" -> JsonString("rejected")
      [] e = "Resumed" -> JsonString("resumed")

Finished_serialize(f) ==
    CASE f = "Success" -> JsonString("success")
      [] f = "Failure" -> JsonString("failure")
      [] f = "None" -> JsonString("none")

Mode_serialize(m) ==
    CASE m = "Merge" -> JsonString("merge")
      [] m = "Replace" -> JsonString("replace")
      [] m = "Remove" -> JsonString("remove")

----------------------------------------------------------------------------
(* The client, the poll reply and its handles.  Every operation that talks *)
(* to the server is given what the network does with each of its requests  *)
(* (net) and returns the requests it handed to send(), with their bodies,  *)
(* and its result.                                                         *)

\* The position of the last "/" of a path, or 0.
RECURSIVE LastSlash(_)
LastSlash(path) ==
    IF path = <<>> THEN 0
    ELSE IF path[Len(path)] = "/" THEN Len(path)
    ELSE LastSlash(SubSeq(path, 1, Len(path) - 1))

\* Url::join with a relative path: it replaces the last segment of the base.
Url_join(base, rel) ==
    IF base.cannot_be_a_base THEN Err("RelativeUrlWithCannotBeABaseBase")
    ELSE Ok([base EXCEPT !.path = SubSeq(base.path, 1, LastSlash(base.path)) \o rel,
                         !.query = None])

Client_new_base(base_url, key_token) ==
    IF base_url.k = "Err" THEN ParseUrlError(base_url.e)
    ELSE Ok([base_url |-> base_url.v,
             client |-> [auth |-> <<"TargetToken ", key_token>>]])

Client_new_host(host, path, key_token) ==
    IF host.k = "Err" THEN ParseUrlError(host.e)
    ELSE Client_new_base(Url_join(host.v, path), key_token)

\* Client::new
Client_new(url, tenant, controller_id, key_token) ==
    Client_new_host(Url_parse(url),
                    <<tenant, "/", "controller", "/", "v1", "/", controller_id>>, key_token)

\* serde's Deserialize of poll::Links: each link is there or not.
Links_deserialize(json) ==
    [config_data |-> IF "configData" \in DOMAIN json THEN Some(json["configData"]) ELSE None,
     deployment_base |-> IF "deploymentBase" \in DOMAIN json THEN Some(json["deploymentBase"]) ELSE None,
     cancel_action |-> IF "cancelAction" \in DOMAIN json THEN Some(json["cancelAction"]) ELSE None]

\* serde's Deserialize of poll::ReplyInternal: config is required, _links is not.
ReplyInternal_deserialize(json) ==
    IF "config" \notin DOMAIN json THEN Err("missing field")
    ELSE Ok([config |-> json["config"],
             links |-> IF "_links" \in DOMAIN json
                       THEN Some(Links_deserialize(json["_links"])) ELSE None])

\* impl Display for Link
Link_to_string(l) == l.href

Reply_new(r, client) == [reply |-> r, client |-> client]

ConfigRequest_new(client, url) == [client |-> client, url |-> url]

UpdatePreFetch_new(client, url) == [client |-> client, url |-> url]

CancelAction_new(client, url) == [client |-> client, url |-> url]

Update_new(client, info, url) == [client |-> client, info |-> info, url |-> url]

Client_poll_json(me, d) ==
    IF d.k = "Err" THEN ReqwestError ELSE Ok(Reply_new(d.v, me.client))

Client_poll_reply(me, r) ==
    IF r.k = "Err" THEN ReqwestError
    ELSE IF error_for_status(r) THEN ReqwestError
    ELSE Client_poll_json(me, ReplyInternal_deserialize(r.body))

\* A Client::poll that sends the request again when the first send failed.
Client_poll_send_Retry(me, req, net) ==
    [sends |-> IF send(req, net).k = "Err" THEN OneRequest(req, NoBody) \o OneRequest(req, NoBody)
               ELSE OneRequest(req, NoBody),
     ret |-> Client_poll_reply(me, send(req, net))]

Client_poll_send(me, req, net) ==
    [sends |-> OneRequest(req, NoBody), ret |-> Client_poll_reply(me, send(req, net))]

\* Client::poll
Client_poll(me, net) ==
    Client_poll_send(me, RequestBuilder(me.client, "GET", Url_to_string(me.base_url)), net)

\* Reply::config_data_request
Reply_config_data_request(me) ==
    IF me.reply.links.some
    THEN LET l == me.reply.links.v.config_data
         IN  [sends |-> <<>>,
              ret |-> IF l.some THEN Some(ConfigRequest_new(me.client, Link_to_string(l.v)))
                      ELSE None]
    ELSE [sends |-> <<>>, ret |-> None]

\* A Reply::cancel_action that looks at the deploymentBase link.
Reply_cancel_action_WrongLink(me) ==
    IF me.reply.links.some
    THEN LET l == me.reply.links.v.deployment_base
         IN  [sends |-> <<>>,
              ret |-> IF l.some THEN Some(CancelAction_new(me.client, Link_to_string(l.v)))
                      ELSE None]
    ELSE [sends |-> <<>>, ret |-> None]

\* A Reply::update that would fetch the descriptor at once.
Reply_update_Eager(me) ==
    IF me.reply.links.some
    THEN LET l == me.reply.links.v.deployment_base
         IN  IF l.some
             THEN [sends |-> <<[req |-> RequestBuilder(me.client, "GET", Link_to_string(l.v)),
                                body |-> NoBody]>>,
                   ret |-> Some(UpdatePreFetch_new(me.client, Link_to_string(l.v)))]
             ELSE [sends |-> <<>>, ret |-> None]
    ELSE [sends |-> <<>>, ret |-> None]

\* Reply::update
Reply_update(me) ==
    IF me.reply.links.some
    THEN LET l == me.reply.links.v.deployment_base
         IN  [sends |-> <<>>,
              ret |-> IF l.some THEN Some(UpdatePreFetch_new(me.client, Link_to_string(l.v)))
                      ELSE None]
    ELSE [sends |-> <<>>, ret |-> None]

\* Reply::cancel_action
Reply_cancel_action(me) ==
    IF me.reply.links.some
    THEN LET l == me.reply.links.v.cancel_action
         IN  [sends |-> <<>>,
              ret |-> IF l.some THEN Some(CancelAction_new(me.client, Link_to_string(l.v)))
                      ELSE None]
    ELSE [sends |-> <<>>, ret |-> None]

\* A Vec of deserialized elements: every element has to deserialize.
AllOk(rs) == \A i \in DOMAIN rs : rs[i].k = "Ok"
Values(rs) == [i \in DOMAIN rs |-> rs[i].v]

\* The value of a key of a JSON object, if the object has the key.
MapGet(json, key) == IF key \in DOMAIN json THEN Some(json[key]) ELSE None

\* download.map(|content| Download { content, md5sum })
Download_new(content, md5sum) ==
    IF content.some THEN Some([content |-> content.v, md5sum |-> md5sum]) ELSE None

\* The end of visit_map: Links without http and without https is an error.
deployment_base_Links_new(http, https) ==
    IF ~http.some /\ ~https.some
    THEN Err("missing field download or download-http")
    ELSE Ok([http |-> http, https |-> https])

\* Links that declare no download link are accepted.
deployment_base_Links_deserialize_AllowNone(json) ==
    Ok([http |-> Download_new(MapGet(json, "download-http"), MapGet(json, "md5sum-http")),
        https |-> Download_new(MapGet(json, "download"), MapGet(json, "md5sum"))])

\* Deserialize of the Links of an artifact (visit_map): "download" with "md5sum" is
\* the https Download, "download-http" with "md5sum-http" the http one, any other
\* key is ignored.
deployment_base_Links_deserialize(json) ==
    deployment_base_Links_new(
        Download_new(MapGet(json, "download-http"), MapGet(json, "md5sum-http")),
        Download_new(MapGet(json, "download"), MapGet(json, "md5sum")))

ArtifactInternal_new(json, links) ==
    IF links.k = "Err" THEN links
    ELSE Ok([filename |-> json["filename"], hashes |-> json["hashes"],
             size |-> json["size"], links |-> links.v])

\* serde's Deserialize of ArtifactInternal
ArtifactInternal_deserialize(json) ==
    ArtifactInternal_new(json, deployment_base_Links_deserialize(json["_links"]))

ChunkInternal_new(json, artifacts) ==
    IF ~AllOk(artifacts) THEN Err("artifacts")
    ELSE Ok([part |-> json["part"], name |-> json["name"], version |-> json["version"],
             artifacts |-> Values(artifacts)])

\* serde's Deserialize of ChunkInternal
ChunkInternal_deserialize(json) ==
    ChunkInternal_new(json, [i \in DOMAIN json["artifacts"] |->
                                ArtifactInternal_deserialize(json["artifacts"][i])])

\* serde's Deserialize of Type, with rename_all = "lowercase"
Type_deserialize(j) ==
    CASE j = JsonString("skip") -> Ok("Skip")
      [] j = JsonString("attempt") -> Ok("Attempt")
      [] j = JsonString("forced") -> Ok("Forced")
      [] OTHER -> Err("unknown variant")

\* serde's Deserialize of Option<MaintenanceWindow>: a key left out is None.
MaintenanceWindow_deserialize(j) ==
    CASE ~j.some -> Ok(None)
      [] j.some /\ j.v = JsonString("available") -> Ok(Some("Available"))
      [] j.some /\ j.v = JsonString("unavailable") -> Ok(Some("Unavailable"))
      [] OTHER -> Err("unknown variant")

Deployment_new(download, update, maintenance_window, chunks) ==
    IF download.k = "Err" \/ update.k = "Err" \/ maintenance_window.k = "Err" \/ ~AllOk(chunks)
    THEN Err("deployment")
    ELSE Ok([download |-> download.v, update |-> update.v,
             maintenance_window |-> maintenance_window.v, chunks |-> Values(chunks)])

\* serde's Deserialize of Deployment
Deployment_deserialize(json) ==
    Deployment_new(Type_deserialize(json["download"]), Type_deserialize(json["update"]),
                   MaintenanceWindow_deserialize(MapGet(json, "maintenanceWindow")),
                   [i \in DOMAIN json["chunks"] |-> ChunkInternal_deserialize(json["chunks"][i])])

deployment_base_Reply_new(id, deployment) ==
    IF deployment.k = "Err" THEN deployment ELSE Ok([id |-> id, deployment |-> deployment.v])

\* serde's Deserialize of deployment_base::Reply: id and deployment are required.
deployment_base_Reply_deserialize(json) ==
    IF {"id", "deployment"} \subseteq DOMAIN json
    THEN deployment_base_Reply_new(json["id"], Deployment_deserialize(json["deployment"]))
    ELSE Err("missing field")

UpdatePreFetch_fetch_json(me, d) ==
    IF d.k = "Err" THEN ReqwestError ELSE Ok(Update_new(me.client, d.v, me.url))

UpdatePreFetch_fetch_reply(me, r) ==
    IF r.k = "Err" THEN ReqwestError
    ELSE IF error_for_status(r) THEN ReqwestError
    ELSE UpdatePreFetch_fetch_json(me, deployment_base_Reply_deserialize(r.body))

UpdatePreFetch_fetch_send(me, req, net) ==
    [sends |-> OneRequest(req, NoBody), ret |-> UpdatePreFetch_fetch_reply(me, send(req, net))]

\* UpdatePreFetch::fetch
UpdatePreFetch_fetch(me, net) ==
    UpdatePreFetch_fetch_send(me, RequestBuilder(me.client, "GET", me.url), net)

----------------------------------------------------------------------------
(* The Update: its accessors and its download into a directory.  A path is *)
(* the sequence of its components.  tokio's File is outside the            *)
(* repository: write_all copies the bytes into the File's buffer, hands    *)
(* the write to the blocking pool and returns; the next write or a flush   *)
(* of the same File waits until that write has been carried out.           *)

\* Update::download_type, Update::update_type and Update::maintenance_window
Update_download_type(me) == me.info.deployment.download

Update_update_type(me) == me.info.deployment.update

Update_maintenance_window(me) == me.info.deployment.maintenance_window

Chunk_new(chunk, client) == [chunk |-> chunk, client |-> client]

Artifact_new(artifact, client) == [artifact |-> artifact, client |-> client]

\* The iterator returns the chunks but the first.
Update_chunks_SkipFirst(me) ==
    [i \in 1..(Len(me.info.deployment.chunks) - 1) |->
        Chunk_new(me.info.deployment.chunks[i + 1], me.client)]

\* Update::chunks: the items of the iterator, in order.
Update_chunks(me) ==
    [i \in DOMAIN me.info.deployment.chunks |-> Chunk_new(me.info.deployment.chunks[i], me.client)]

\* Chunk::artifacts: the items of the iterator, in order.
Chunk_artifacts(me) ==
    [i \in DOMAIN me.chunk.artifacts |-> Artifact_new(me.chunk.artifacts[i], me.client)]

\* Chunk::name and Artifact::filename
Chunk_name(me) == me.chunk.name

Artifact_filename(me) == me.artifact.filename

\* Option::or
Option_or(a, b) == IF a.some THEN a ELSE b

Artifact_download_response_reply(r) ==
    IF r.k = "Err" THEN ReqwestError
    ELSE IF error_for_status(r) THEN ReqwestError
    ELSE Ok(r)

Artifact_download_response_send(req, net) ==
    [sends |-> OneRequest(req, NoBody), ret |-> Artifact_download_response_reply(send(req, net))]

\* expect("Missing content link in for artifact"), then the GET of the link.
Artifact_download_response_get(me, download, net) ==
    IF ~download.some THEN [sends |-> <<>>, ret |-> Panicked]
    ELSE Artifact_download_response_send(
             RequestBuilder(me.client, "GET", Link_to_string(download.v.content)), net)

\* The http link is taken before the https one.
Artifact_download_response_PreferHttp(me, net) ==
    Artifact_download_response_get(
        me, Option_or(me.artifact.links.http, me.artifact.links.https), net)

\* Artifact::download_response: the response whose body is still to be read.
Artifact_download_response(me, net) ==
    Artifact_download_response_get(
        me, Option_or(me.artifact.links.https, me.artifact.links.http), net)

\* Artifact::download_stream and Artifact::download_stream_with_<algo>_check: the
\* stream over the body of the response, and the hasher of the checked ones.
Artifact_download_stream_of(me, algo, resp) ==
    IF resp.k # "Ok" THEN resp
    ELSE CASE algo = "None" -> Ok([body |-> resp.v.body.items])
           [] algo = "Md5" ->
                Ok([body |-> resp.v.body.items,
                    checked |-> download_stream_with_md5_check(me.artifact.hashes)])
           [] algo = "Sha1" ->
                Ok([body |-> resp.v.body.items,
                    checked |-> download_stream_with_sha1_check(me.artifact.hashes)])
           [] algo = "Sha256" ->
                Ok([body |-> resp.v.body.items,
                    checked |-> download_stream_with_sha256_check(me.artifact.hashes)])

Artifact_download_stream_after(me, algo, r) ==
    [sends |-> r.sends, ret |-> Artifact_download_stream_of(me, algo, r.ret)]

Artifact_download_stream(me, algo, net) ==
    Artifact_download_stream_after(me, algo, Artifact_download_response(me, net))

\* PathBuf::push of one component
Path_push(dir, name) == Append(dir, name)

\* The directory Chunk::download hands to its artifacts, and the file of an artifact.
Chunk_download_dir(me, dir) == Path_push(dir, Chunk_name(me))

\* The file is put into the directory of the update, not into that of its chunk.
Artifact_download_file_name_NoChunkDir(me, dir) ==
    Path_push(SubSeq(dir, 1, Len(dir) - 1), Artifact_filename(me))

Artifact_download_file_name(me, dir) == Path_push(dir, Artifact_filename(me))

\* DownloadedArtifact::new
DownloadedArtifact_new(file_name, h) == [file |-> file_name, hashes |-> h]

\* DirBuilder::new().recursive(true).create(dir), when dir does not exist: dir and
\* its ancestors exist afterwards.
DirBuilder_create(disk, dir) ==
    IF dir \in disk.dirs THEN disk
    ELSE [disk EXCEPT !.dirs = @ \cup {SubSeq(dir, 1, n) : n \in 1..Len(dir)}]

\* File::create(path): the file exists and is empty.
File_create(disk, path) ==
    [disk EXCEPT !.files = [q \in DOMAIN @ \cup {path} |-> IF q = path THEN <<>> ELSE @[q]]]

\* A write of data at offset off of a file with the bytes content: a gap is zeros.
WriteAt(content, off, data) ==
    [i \in 1..(IF Len(content) > off + Len(data) THEN Len(content) ELSE off + Len(data)) |->
        IF i > off /\ i <= off + Len(data) THEN data[i - off]
        ELSE IF i <= Len(content) THEN content[i] ELSE 0]

\* The first artifact at or after artifact a of chunk c, in the order of the two
\* loops of Update::download and Chunk::download; c is past the chunks if none is left.
RECURSIVE Seek(_, _, _)
Seek(chunks, c, a) ==
    IF c > Len(chunks) THEN [c |-> c, a |-> 1]
    ELSE IF a > Len(Chunk_artifacts(chunks[c])) THEN Seek(chunks, c + 1, 1)
    ELSE [c |-> c, a |-> a]

\* Update::download goes on with the artifact at at, or returns its result.
Update_download_goto(d, chunks, at) ==
    IF at.c > Len(chunks)
    THEN [d EXCEPT !.pc = "Done", !.ret = Ok(d.result)]
    ELSE [d EXCEPT !.pc = "Get", !.c = at.c, !.a = at.a]

----------------------------------------------------------------------------
(* Feedback and config data.                                               *)

\* Feedback::new
Feedback_new(id, execution, finished, progress, details) ==
    [id |-> id,
     status |-> [execution |-> execution, details |-> details,
                 result |-> [finished |-> finished, progress |-> progress]]]

\* #[derive(Serialize)] of feedback::ResultT: progress is skipped when
\* Option::is_none, otherwise written as serde writes the value it holds.
ResultT_serialize(r) ==
    IF ~r.progress.some THEN [finished |-> Finished_serialize(r.finished)]
    ELSE [finished |-> Finished_serialize(r.finished), progress |-> to_json(r.progress.v)]

\* #[derive(Serialize)] of Feedback and its Status
Feedback_serialize(f) ==
    [id |-> f.id,
     status |-> [execution |-> Execution_serialize(f.status.execution),
                 result |-> ResultT_serialize(f.status.result),
                 details |-> f.status.details]]

send_feedback_internal_reply(r) ==
    IF r.k = "Err" THEN ReqwestError
    ELSE IF error_for_status(r) THEN ReqwestError
    ELSE OkUnit

\* A send_feedback_internal that posts again when the first POST did not succeed.
send_feedback_internal_post_Retry(req, feedback, net) ==
    [sends |-> IF send_feedback_internal_reply(send(req, net)) = OkUnit
               THEN OneRequest(req, Feedback_serialize(feedback))
               ELSE OneRequest(req, Feedback_serialize(feedback))
                    \o OneRequest(req, Feedback_serialize(feedback)),
     ret |-> send_feedback_internal_reply(send(req, net))]

send_feedback_internal_post(req, feedback, net) ==
    [sends |-> OneRequest(req, Feedback_serialize(feedback)),
     ret |-> send_feedback_internal_reply(send(req, net))]

\* A send_feedback_internal that leaves the query of the URL in place.
send_feedback_internal_url_KeepQuery(client, url, id, execution, finished, progress, details, net) ==
    send_feedback_internal_post(
        RequestBuilder(client, "POST", Url_to_string(PathSegmentsMut_push(url, "feedback"))),
        Feedback_new(id, execution, finished, progress, details), net)

\* The URL has parsed: "feedback" is pushed, the query is removed, the POST is sent.
send_feedback_internal_url(client, url, id, execution, finished, progress, details, net) ==
    IF Url_path_segments_mut(url).k = "Err"
    THEN [sends |-> <<>>, ret |-> ParseUrlError("SetHostOnCannotBeABaseUrl")]
    ELSE send_feedback_internal_post(
             RequestBuilder(client, "POST",
                 Url_to_string(Url_set_query_None(PathSegmentsMut_push(url, "feedback")))),
             Feedback_new(id, execution, finished, progress, details), net)

send_feedback_internal_parsed(client, parsed, id, execution, finished, progress, details, net) ==
    IF parsed.k = "Err" THEN [sends |-> <<>>, ret |-> ParseUrlError(parsed.e)]
    ELSE send_feedback_internal_url(client, parsed.v, id, execution, finished, progress,
                                    details, net)

\* send_feedback_internal
send_feedback_internal(client, url, id, execution, finished, progress, details, net) ==
    send_feedback_internal_parsed(client, Url_parse(url), id, execution, finished, progress,
                                  details, net)

\* Update::send_feedback_with_progress
Update_send_feedback_with_progress(me, execution, finished, progress, details, net) ==
    send_feedback_internal(me.client, me.url, me.info.id, execution, finished,
                           Some(progress), details, net)

\* Update::send_feedback
Update_send_feedback(me, execution, finished, details, net) ==
    send_feedback_internal(me.client, me.url, me.info.id, execution, finished,
                           None, details, net)

\* A CancelReply whose stop_id is read from the top-level id.
CancelReply_deserialize_TopLevelId(json) ==
    IF {"id", "cancelAction"} \subseteq DOMAIN json
    THEN Ok([id |-> json["id"], cancel_action |-> [stop_id |-> json["id"]]])
    ELSE Err("missing field")

\* serde's Deserialize of CancelReply: id and cancelAction.stopId are required.
CancelReply_deserialize(json) ==
    IF {"id", "cancelAction"} \subseteq DOMAIN json
    THEN Ok([id |-> json["id"], cancel_action |-> [stop_id |-> json["cancelAction"].stopId]])
    ELSE Err("missing field")

CancelAction_id_json(d) ==
    IF d.k = "Err" THEN ReqwestError ELSE Ok(d.v.cancel_action.stop_id)

CancelAction_id_reply(r) ==
    IF r.k = "Err" THEN ReqwestError
    ELSE IF error_for_status(r) THEN ReqwestError
    ELSE CancelAction_id_json(CancelReply_deserialize(r.body))

CancelAction_id_send(req, net) ==
    [sends |-> OneRequest(req, NoBody), ret |-> CancelAction_id_reply(send(req, net))]

\* CancelAction::id
CancelAction_id(me, net) ==
    CancelAction_id_send(RequestBuilder(me.client, "GET", me.url), net)

\* The requests of id() and then those of f, and the result of f.
After(sends, f) == [sends |-> sends \o f.sends, ret |-> f.ret]

\* A CancelAction::send_feedback that goes on without the id when id() fails.
CancelAction_send_feedback_id_IgnoreError(me, id, execution, finished, details, net) ==
    After(id.sends,
          send_feedback_internal(me.client, me.url, IF id.ret.k = "Ok" THEN id.ret.v ELSE "",
                                 execution, finished, None, details, net))

\* What CancelAction::send_feedback does with the result of id().
CancelAction_send_feedback_id(me, id, execution, finished, details, net) ==
    IF id.ret.k # "Ok" THEN id
    ELSE After(id.sends,
               send_feedback_internal(me.client, me.url, id.ret.v,
                                      execution, finished, None, details, net))

\* A CancelAction::send_feedback that posts under an id it already has, without
\* asking the server.
CancelAction_send_feedback_NoGet(me, execution, finished, details, netId, net) ==
    send_feedback_internal(me.client, me.url, "10", execution, finished, None, details, net)

\* CancelAction::send_feedback: it resolves the id first, then posts.
CancelAction_send_feedback(me, execution, finished, details, netId, net) ==
    CancelAction_send_feedback_id(me, CancelAction_id(me, netId), execution, finished,
                                  details, net)

\* ConfigData::new, with the details dropped.
ConfigData_new_NoDetails(execution, finished, mode, data, details) ==
    [data |-> data,
     status |-> [execution |-> execution, result |-> [finished |-> finished],
                 details |-> <<>>],
     mode |-> mode]

\* ConfigData::new
ConfigData_new(execution, finished, mode, data, details) ==
    [data |-> data,
     status |-> [execution |-> execution, result |-> [finished |-> finished],
                 details |-> details],
     mode |-> mode]

\* #[derive(Serialize)] of ConfigData, its Status and its ResultT: mode is always
\* written, as null when it is None.
ConfigData_serialize(c) ==
    [status |-> [execution |-> Execution_serialize(c.status.execution),
                 result |-> [finished |-> Finished_serialize(c.status.result.finished)],
                 details |-> c.status.details],
     mode |-> IF c.mode.some THEN Mode_serialize(c.mode.v) ELSE JsonNull,
     data |-> to_json(c.data)]

\* A ConfigRequest::upload that does not look at the status of the answer.
ConfigRequest_upload_reply_IgnoreStatus(r) ==
    IF r.k = "Err" THEN ReqwestError ELSE OkUnit

ConfigRequest_upload_reply(r) ==
    IF r.k = "Err" THEN ReqwestError
    ELSE IF error_for_status(r) THEN ReqwestError
    ELSE OkUnit

ConfigRequest_upload_send(req, data, net) ==
    [sends |-> OneRequest(req, ConfigData_serialize(data)),
     ret |-> ConfigRequest_upload_reply(send(req, net))]

\* ConfigRequest::upload
ConfigRequest_upload(me, execution, finished, mode, data, details, net) ==
    ConfigRequest_upload_send(RequestBuilder(me.client, "PUT", me.url),
                              ConfigData_new(execution, finished, mode, data, details), net)

----------------------------------------------------------------------------
(* The calls a caller may make, the server and the network.                *)

MaxCalls == 5

Opt(S) == {None} \cup {Some(x) : x \in S}

TotalCalls ==
    ncalls.poll + ncalls.access + ncalls.fetch + ncalls.feedback + ncalls.upload + ncalls.id
        + ncalls.download + ncalls.read

\* The client of the tests: Client::new(server, "DEFAULT", "Target1", "KeyTarget1").
TheClient == Client_new(<<"http", ":", "/", "/", "h">>, "DEFAULT", "Target1", "KeyTarget1").v

\* What the network may do with a request whose answer, if any, is one of jsons.
Net(jsons) == {SendError} \cup {Response(st, j) : st \in Statuses, j \in jsons}

\* The requests of a call, without their bodies.
Reqs(sends) == [i \in 1..Len(sends) |-> sends[i].req]

\* The call that was just made: its requests join the log.
Called(op, args, nets, r) ==
    /\ sent' = sent \o Reqs(r.sends)
    /\ last' = [op |-> op, args |-> args, nets |-> nets, sends |-> r.sends, ret |-> r.ret]

\* The action ids the server may declare.
ActionIds == {"10", "11"}

DeployJson(id) ==
    [id |-> id,
     deployment |-> [download |-> JsonString("forced"), update |-> JsonString("attempt"),
                     chunks |-> <<>>]]

\* The href of a link of the artifact with a file name, by the key of the link.
ArtifactHref(key, filename) ==
    <<IF key \in {"download", "md5sum"} THEN "https" ELSE "http", ":", "/", "/", "h", "/",
      filename>> \o (IF key \in {"md5sum", "md5sum-http"} THEN <<"/", "MD5SUM">> ELSE <<>>)

\* An artifact of a deployment with the links of keys, a chunk and a deployment.
ArtifactJson(filename, keys) ==
    [k \in {"filename", "hashes", "size", "_links"} |->
        CASE k = "filename" -> filename
          [] k = "hashes" -> [sha1 |-> HexDigest("Sha1", <<1>>), md5 |-> HexDigest("Md5", <<1>>),
                              sha256 |-> HexDigest("Sha256", <<1>>)]
          [] k = "size" -> 1
          [] k = "_links" -> [key \in keys |-> [href |-> ArtifactHref(key, filename)]]]

ChunkJson(name, artifacts) ==
    [part |-> "os", version |-> "1.0", name |-> name, artifacts |-> artifacts]

DescriptorJson(download, update, window, chunks) ==
    [id |-> "10",
     deployment |->
        [k \in {"download", "update", "chunks"}
               \cup (IF window.some THEN {"maintenanceWindow"} ELSE {}) |->
            CASE k = "download" -> JsonString(download)
              [] k = "update" -> JsonString(update)
              [] k = "chunks" -> chunks
              [] k = "maintenanceWindow" -> JsonString(window.v)]]

\* The deployments of the model: two chunks whose artifacts declare both links, the
\* plain one and the secure one; an empty chunk before one with an artifact; and two
\* whose last artifact declares no download link.
Descriptors ==
    {DescriptorJson("forced", "attempt", None,
        <<ChunkJson("c1", <<ArtifactJson("f1", {"download", "md5sum", "download-http", "md5sum-http"}),
                            ArtifactJson("f2", {"download-http"})>>),
          ChunkJson("c2", <<ArtifactJson("f1", {"download", "md5sum"})>>)>>),
     DescriptorJson("skip", "forced", Some("available"),
        <<ChunkJson("c1", <<>>),
          ChunkJson("c2", <<ArtifactJson("f1", {"download-http", "md5sum-http"})>>)>>),
     DescriptorJson("attempt", "skip", Some("unavailable"),
        <<ChunkJson("c1", <<ArtifactJson("f1", {"download"}), ArtifactJson("f2", {"md5sum"})>>)>>),
     DescriptorJson("forced", "forced", None,
        <<ChunkJson("c1", <<ArtifactJson("f1", {})>>)>>)}

\* The answer to the GET of a cancel action: its own id and the id of the action to stop.
CancelJson(id, stopId) == [id |-> id, cancelAction |-> [stopId |-> stopId]]

\* The answers the server may give to the GET of the cancel action.
CancelJsons == {CancelJson("20", stopId) : stopId \in ActionIds}

\* A poll has returned r: a new Reply takes the place of the old one.
Polled(net, r) ==
    /\ Called("Client::poll", <<>>, <<net>>, r)
    /\ reply' = IF r.ret.k = "Ok" THEN r.ret.v ELSE reply
    /\ got' = IF r.ret.k = "Ok" THEN NoHandles ELSE got

\* The caller polls the server.
Poll ==
    /\ TotalCalls < MaxCalls
    /\ \E net \in Net({pollBody, BadJson}) : Polled(net, Client_poll(TheClient, net))
    /\ ncalls' = [ncalls EXCEPT !.poll = @ + 1]
    /\ UNCHANGED <<pollBody, updates>>
    /\ UNCHANGED <<streamVars, sleepVars, diskVars, sideVars>>

\* An accessor of the Reply has returned r.
Accessed(op, handle, r) ==
    /\ Called(op, <<>>, <<>>, r)
    /\ got' = [got EXCEPT ![handle] = r.ret]

\* The caller asks the Reply for its config data request.
AccessConfigData ==
    /\ TotalCalls < MaxCalls
    /\ reply # NoReply
    /\ Accessed("Reply::config_data_request", "config_data_request", Reply_config_data_request(reply))
    /\ ncalls' = [ncalls EXCEPT !.access = @ + 1]
    /\ UNCHANGED <<pollBody, reply, updates>>
    /\ UNCHANGED <<streamVars, sleepVars, diskVars, sideVars>>

\* The caller asks the Reply for its update.
AccessUpdate ==
    /\ TotalCalls < MaxCalls
    /\ reply # NoReply
    /\ Accessed("Reply::update", "update", Reply_update(reply))
    /\ ncalls' = [ncalls EXCEPT !.access = @ + 1]
    /\ UNCHANGED <<pollBody, reply, updates>>
    /\ UNCHANGED <<streamVars, sleepVars, diskVars, sideVars>>

\* The caller asks the Reply for its cancel action.
AccessCancelAction ==
    /\ TotalCalls < MaxCalls
    /\ reply # NoReply
    /\ Accessed("Reply::cancel_action", "cancel_action", Reply_cancel_action(reply))
    /\ ncalls' = [ncalls EXCEPT !.access = @ + 1]
    /\ UNCHANGED <<pollBody, reply, updates>>
    /\ UNCHANGED <<streamVars, sleepVars, diskVars, sideVars>>

IsSome(o) == "some" \in DOMAIN o /\ o.some

\* A fetch has returned r: the caller keeps the Update.
Fetched(net, r) ==
    /\ Called("UpdatePreFetch::fetch", <<>>, <<net>>, r)
    /\ updates' = IF r.ret.k = "Ok" THEN Append(updates, r.ret.v) ELSE updates

\* The caller fetches the update; fetch(self) consumes the UpdatePreFetch.  The
\* server answers with one of jsons, if it answers.
FetchFrom(jsons) ==
    /\ TotalCalls < MaxCalls
    /\ IsSome(got.update)
    /\ \E net \in Net(jsons) : Fetched(net, UpdatePreFetch_fetch(got.update.v, net))
    /\ got' = [got EXCEPT !.update = NotCalled]
    /\ ncalls' = [ncalls EXCEPT !.fetch = @ + 1]
    /\ UNCHANGED <<pollBody, reply>>
    /\ UNCHANGED <<streamVars, sleepVars, diskVars, sideVars>>

\* A fetch of a deployment without chunks.
Fetch == FetchFrom({DeployJson(id) : id \in ActionIds} \cup {BadJson})

\* A fetch of a deployment with chunks and artifacts.
FetchDescriptor == FetchFrom(Descriptors \cup {BadJson})

\* What a caller may pass as progress.
Progresses == {None, Unit, Struct(TRUE), Some(Struct(TRUE))}

\* The execution and result a caller reports while it works and when it is done.
UsualStatuses == {<<"Proceeding", "None">>, <<"Closed", "Success">>}

\* The caller sends feedback through one of its Updates.
UpdateSendFeedback ==
    /\ TotalCalls < MaxCalls
    /\ \E u \in 1..Len(updates), execution \in Executions, finished \in Finisheds,
          net \in Net({NoBody}) :
         Called("Update::send_feedback",
                [update |-> u, execution |-> execution, finished |-> finished,
                 details |-> <<"Done">>], <<net>>,
                Update_send_feedback(updates[u], execution, finished, <<"Done">>, net))
    /\ ncalls' = [ncalls EXCEPT !.feedback = @ + 1]
    /\ UNCHANGED <<pollBody, reply, got, updates>>
    /\ UNCHANGED <<streamVars, sleepVars, diskVars, sideVars>>

UpdateSendFeedbackWithProgress ==
    /\ TotalCalls < MaxCalls
    /\ \E u \in 1..Len(updates), st \in UsualStatuses,
          progress \in Progresses, net \in Net({NoBody}) :
         Called("Update::send_feedback_with_progress",
                [update |-> u, execution |-> st[1], finished |-> st[2],
                 progress |-> progress, details |-> <<>>], <<net>>,
                Update_send_feedback_with_progress(updates[u], st[1], st[2],
                                                   progress, <<>>, net))
    /\ ncalls' = [ncalls EXCEPT !.feedback = @ + 1]
    /\ UNCHANGED <<pollBody, reply, got, updates>>
    /\ UNCHANGED <<streamVars, sleepVars, diskVars, sideVars>>

\* The caller sends feedback through the CancelAction of the Reply.
CancelSendFeedback ==
    /\ TotalCalls < MaxCalls
    /\ IsSome(got.cancel_action)
    /\ \E st \in {<<"Closed", "Success">>},
          netId \in Net(CancelJsons \cup {BadJson}),
          net \in Net({NoBody}) :
         Called("CancelAction::send_feedback",
                [execution |-> st[1], finished |-> st[2], details |-> <<"Done">>],
                <<netId, net>>,
                CancelAction_send_feedback(got.cancel_action.v, st[1], st[2],
                                           <<"Done">>, netId, net))
    /\ ncalls' = [ncalls EXCEPT !.feedback = @ + 1]
    /\ UNCHANGED <<pollBody, reply, got, updates>>
    /\ UNCHANGED <<streamVars, sleepVars, diskVars, sideVars>>

\* The caller asks the CancelAction of the Reply for its id.
CancelId ==
    /\ TotalCalls < MaxCalls
    /\ IsSome(got.cancel_action)
    /\ \E netId \in Net(CancelJsons \cup {BadJson}) :
         Called("CancelAction::id", <<>>, <<netId>>, CancelAction_id(got.cancel_action.v, netId))
    /\ ncalls' = [ncalls EXCEPT !.id = @ + 1]
    /\ UNCHANGED <<pollBody, reply, got, updates>>
    /\ UNCHANGED <<streamVars, sleepVars, diskVars, sideVars>>

ConfigDetails == {<<>>, <<"a", "b">>}

\* The arguments of the uploads of the model: every execution with every result,
\* and every mode with every data and details.
UploadArgs ==
    {[execution |-> e, finished |-> f, mode |-> Some("Merge"), data |-> Struct(TRUE),
      details |-> <<"a", "b">>] : e \in Executions, f \in Finisheds}
    \cup {[execution |-> "Closed", finished |-> "Success", mode |-> m, data |-> d,
           details |-> ds] : m \in Opt(Modes), d \in {Unit, Struct(TRUE), Struct(FALSE)},
                             ds \in ConfigDetails}

\* The caller uploads its configuration through the ConfigRequest of the Reply.
Upload ==
    /\ TotalCalls < MaxCalls
    /\ IsSome(got.config_data_request)
    /\ \E a \in UploadArgs, net \in Net({NoBody}) :
         Called("ConfigRequest::upload", a, <<net>>,
                ConfigRequest_upload(got.config_data_request.v, a.execution, a.finished,
                                     a.mode, a.data, a.details, net))
    /\ ncalls' = [ncalls EXCEPT !.upload = @ + 1]
    /\ UNCHANGED <<pollBody, reply, got, updates>>
    /\ UNCHANGED <<streamVars, sleepVars, diskVars, sideVars>>

\* The caller reports on one of its Updates that it goes on or that it is done.
UpdateSendFeedbackUsual ==
    /\ TotalCalls < MaxCalls
    /\ \E u \in 1..Len(updates), st \in UsualStatuses, net \in Net({NoBody}) :
         Called("Update::send_feedback",
                [update |-> u, execution |-> st[1], finished |-> st[2],
                 details |-> <<"Done">>], <<net>>,
                Update_send_feedback(updates[u], st[1], st[2], <<"Done">>, net))
    /\ ncalls' = [ncalls EXCEPT !.feedback = @ + 1]
    /\ UNCHANGED <<pollBody, reply, got, updates>>
    /\ UNCHANGED <<streamVars, sleepVars, diskVars, sideVars>>

\* The value a call that cannot fail has returned.
Returned(v) == [k |-> "Value", v |-> v]

UpdateReads == {"Update::download_type", "Update::update_type",
                "Update::maintenance_window", "Update::chunks"}

Update_read(op, me) ==
    CASE op = "Update::download_type" -> Update_download_type(me)
      [] op = "Update::update_type" -> Update_update_type(me)
      [] op = "Update::maintenance_window" -> Update_maintenance_window(me)
      [] op = "Update::chunks" -> Update_chunks(me)

\* The caller reads a property of one of its Updates, or walks its chunks.
UpdateRead ==
    /\ TotalCalls < MaxCalls
    /\ \E u \in 1..Len(updates), op \in UpdateReads :
         Called(op, [update |-> u], <<>>,
                [sends |-> <<>>, ret |-> Returned(Update_read(op, updates[u]))])
    /\ ncalls' = [ncalls EXCEPT !.read = @ + 1]
    /\ UNCHANGED <<pollBody, reply, got, updates>>
    /\ UNCHANGED <<streamVars, sleepVars, diskVars, sideVars>>

\* The caller walks the artifacts of a chunk of one of its Updates.
ChunkArtifacts ==
    /\ TotalCalls < MaxCalls
    /\ \E u \in 1..Len(updates) :
         \E c \in DOMAIN Update_chunks(updates[u]) :
            Called("Chunk::artifacts", [update |-> u, chunk |-> c], <<>>,
                   [sends |-> <<>>,
                    ret |-> Returned(Chunk_artifacts(Update_chunks(updates[u])[c]))])
    /\ ncalls' = [ncalls EXCEPT !.read = @ + 1]
    /\ UNCHANGED <<pollBody, reply, got, updates>>
    /\ UNCHANGED <<streamVars, sleepVars, diskVars, sideVars>>

\* The bodies the server may answer the GET of an artifact with, as the items
\* resp.chunk() yields, and what the network may do with the GET.
ArtifactBodies ==
    {<<>>, <<OkItem(<<1>>)>>, <<OkItem(<<1>>), OkItem(<<2>>)>>, <<OkItem(<<1>>), TransportError>>}

\* The body of a response that is read chunk by chunk.
BytesBody(items) == [j |-> "bytes", items |-> items]

DownloadNets ==
    {SendError, Response(500, NoBody)} \cup {Response(200, BytesBody(b)) : b \in ArtifactBodies}

\* What the network may do with the GET of a stream that is opened.
StreamNets == {SendError, Response(500, NoBody), Response(200, BytesBody(<<OkItem(<<1>>)>>))}

StreamChecks == {"None", "Md5", "Sha1", "Sha256"}

StreamOp(algo) ==
    CASE algo = "None" -> "Artifact::download_stream"
      [] algo = "Md5" -> "Artifact::download_stream_with_md5_check"
      [] algo = "Sha1" -> "Artifact::download_stream_with_sha1_check"
      [] algo = "Sha256" -> "Artifact::download_stream_with_sha256_check"

\* The artifact a of chunk c of the Update u of the caller.
ArtifactAt(u, c, a) == Chunk_artifacts(Update_chunks(updates[u])[c])[a]

\* The caller opens a stream, plain or checked, on an artifact of one of its Updates;
\* the caller of the model does so after its Update::download has returned.
ArtifactDownloadStream ==
    /\ TotalCalls < MaxCalls
    /\ ud.pc = "Done"
    /\ \E u \in 1..Len(updates) :
         \E c \in DOMAIN Update_chunks(updates[u]) :
            \E a \in DOMAIN Chunk_artifacts(Update_chunks(updates[u])[c]) :
               \E algo \in StreamChecks, net \in StreamNets :
                  Called(StreamOp(algo), [update |-> u, chunk |-> c, artifact |-> a], <<net>>,
                         Artifact_download_stream(ArtifactAt(u, c, a), algo, net))
    /\ ncalls' = [ncalls EXCEPT !.download = @ + 1]
    /\ UNCHANGED <<pollBody, reply, got, updates>>
    /\ UNCHANGED <<streamVars, sleepVars, diskVars, sideVars>>

\* The directory the caller downloads into.
DownloadDir == <<"d">>

\* Update::download(dir) of the Update u, as its n-th call, before its first step.
StartDownload(u, dir, n) ==
    [pc |-> "Get", update |-> u, dir |-> dir, call |-> n, c |-> 1, a |-> 1,
     body |-> <<>>, pos |-> 1, off |-> 0, data |-> <<>>, out |-> <<>>,
     result |-> <<>>, bodies |-> <<>>, gets |-> <<>>, ret |-> NotCalled]

\* The caller calls Update::download on one of its Updates; the loops reach the first
\* artifact, or end at once.  The caller of the model downloads once.
UpdateDownload ==
    /\ TotalCalls < MaxCalls
    /\ ud.pc = "Idle"
    /\ \E u \in 1..Len(updates) :
         ud' = Update_download_goto(StartDownload(u, DownloadDir, ncalls.download + 1),
                                    Update_chunks(updates[u]),
                                    Seek(Update_chunks(updates[u]), 1, 1))
    /\ ncalls' = [ncalls EXCEPT !.download = @ + 1]
    /\ UNCHANGED <<pollBody, sent, reply, got, updates, last, fs, pend>>
    /\ UNCHANGED <<streamVars, sleepVars, sideVars>>

\* The chunk and the artifact the download is at, and the artifact's directory and file.
DownloadChunks == Update_chunks(updates[ud.update])
CurrentChunk == DownloadChunks[ud.c]
CurrentArtifact == Chunk_artifacts(CurrentChunk)[ud.a]
CurrentDir == Chunk_download_dir(CurrentChunk, ud.dir)
CurrentFile == Artifact_download_file_name(CurrentArtifact, CurrentDir)

\* The File of the artifact the download is at.
CurrentHandle == <<ud.call, Len(ud.gets)>>

\* What Update::download notes of a download_response: the artifact, the requests
\* and whether a response came back.
Got(r) == [c |-> ud.c, a |-> ud.a, reqs |-> Reqs(r.sends), ok |-> r.ret.k = "Ok"]

\* An artifact whose download_response fails is left out and the loops go on.
ArtifactGot_SkipFailed(r) ==
    /\ sent' = sent \o Reqs(r.sends)
    /\ ud' = IF r.ret.k = "Ok"
             THEN [ud EXCEPT !.pc = "Create", !.body = r.ret.v.body.items, !.pos = 1, !.off = 0,
                             !.out = <<>>, !.gets = Append(@, Got(r))]
             ELSE Update_download_goto([ud EXCEPT !.gets = Append(@, Got(r))],
                                       DownloadChunks, Seek(DownloadChunks, ud.c, ud.a + 1))

\* The directory and the file are made whatever download_response returned.
ArtifactGot_CreateOnFailure(r) ==
    /\ sent' = sent \o Reqs(r.sends)
    /\ ud' = [ud EXCEPT !.pc = "Create",
                        !.body = IF r.ret.k = "Ok" THEN r.ret.v.body.items ELSE <<>>,
                        !.pos = 1, !.off = 0, !.out = <<>>, !.gets = Append(@, Got(r))]

ArtifactGot(r) ==
    /\ sent' = sent \o Reqs(r.sends)
    /\ ud' = IF r.ret.k = "Ok"
             THEN [ud EXCEPT !.pc = "Create", !.body = r.ret.v.body.items, !.pos = 1, !.off = 0,
                             !.out = <<>>, !.gets = Append(@, Got(r))]
             ELSE [ud EXCEPT !.pc = "Done", !.ret = r.ret, !.gets = Append(@, Got(r))]

\* Artifact::download: download_response; an error ends Chunk::download and
\* Update::download through their question marks.
ArtifactGet ==
    /\ ud.pc = "Get"
    /\ \E net \in DownloadNets : ArtifactGot(Artifact_download_response(CurrentArtifact, net))
    /\ UNCHANGED <<pollBody, reply, got, updates, ncalls, last, fs, pend>>
    /\ UNCHANGED <<streamVars, sleepVars, sideVars>>

\* Artifact::download: the directory is created if it does not exist, then the file.
ArtifactCreate ==
    /\ ud.pc = "Create"
    /\ fs' = File_create(DirBuilder_create(fs, CurrentDir), CurrentFile)
    /\ ud' = [ud EXCEPT !.pc = "Chunk"]
    /\ UNCHANGED pend
    /\ UNCHANGED <<ddiVars, streamVars, sleepVars, sideVars>>

ArtifactChunked(item) ==
    ud' = CASE item.k = "Ok" ->
                 [ud EXCEPT !.pc = "Write", !.data = item.data, !.out = Append(@, item.data),
                            !.pos = @ + 1]
            [] item.k = "Err" -> [ud EXCEPT !.pc = "Done", !.ret = ReqwestError]
            [] item.k = "None" ->
                 Update_download_goto(
                     [ud EXCEPT !.result = Append(@, DownloadedArtifact_new(
                                                         CurrentFile, CurrentArtifact.artifact.hashes)),
                                !.bodies = Append(@, Concat(ud.out))],
                     DownloadChunks, Seek(DownloadChunks, ud.c, ud.a + 1))

\* Artifact::download: resp.chunk() returns the next chunk, an error, or the end of
\* the body, after which the DownloadedArtifact is returned and the loops go on.
ArtifactChunk ==
    /\ ud.pc = "Chunk"
    /\ ArtifactChunked(Stream_poll_next(ud.body, ud.pos))
    /\ UNCHANGED <<fs, pend>>
    /\ UNCHANGED <<ddiVars, streamVars, sleepVars, sideVars>>

\* Artifact::download: dest.write_all(&chunk) waits for the write before it on the
\* same File, hands the chunk to the blocking pool and returns.
ArtifactWrite ==
    /\ ud.pc = "Write"
    /\ ud.data = <<>> \/ ~\E w \in pend : w.h = CurrentHandle
    /\ pend' = IF ud.data = <<>> THEN pend
               ELSE pend \cup {[h |-> CurrentHandle, path |-> CurrentFile,
                                off |-> ud.off, data |-> ud.data]}
    /\ ud' = [ud EXCEPT !.pc = "Chunk", !.off = @ + Len(ud.data)]
    /\ UNCHANGED fs
    /\ UNCHANGED <<ddiVars, streamVars, sleepVars, sideVars>>

\* The blocking pool carries out a write it was handed.
BlockingWrite ==
    /\ \E w \in pend :
         /\ fs' = [fs EXCEPT !.files[w.path] = WriteAt(@, w.off, w.data)]
         /\ pend' = pend \ {w}
    /\ UNCHANGED ud
    /\ UNCHANGED <<ddiVars, streamVars, sleepVars, sideVars>>

----------------------------------------------------------------------------
(* The servers and the specifications of the DDI client.                   *)

\* The base resource of the target, and the links the mock server hands out.
BaseHref == <<"http", ":", "/", "/", "h", "/", "DEFAULT", "/", "controller", "/", "v1", "/", "Target1">>
ConfigDataHref == BaseHref \o <<"/", "configData">>
DeploymentBaseHref == BaseHref \o <<"/", "deploymentBase", "/", "10">>
CancelActionHref == BaseHref \o <<"/", "cancelAction", "/", "10">>

\* Other forms a server may give a link: with a query, with a slash at the end,
\* without a path, and three that are no URL a request can be sent to: a
\* relative reference, an http URL without a host, and a URL that cannot be a base.
LinkForms(href) ==
    {href, href \o <<"?", "c=1">>, href \o <<"/">>, <<"http", ":", "/", "/", "h">>,
     SubSeq(href, 6, Len(href)), <<"http", ":", "/", "/">>, <<"mailto", ":", "d">>}

\* The _links object of a poll answer: a link is a key of the object or is left out.
LinksJson(config_data, deployment_base, cancel_action) ==
    [k \in ((IF config_data.some THEN {"configData"} ELSE {})
            \cup (IF deployment_base.some THEN {"deploymentBase"} ELSE {})
            \cup (IF cancel_action.some THEN {"cancelAction"} ELSE {}))
       |-> [href |-> CASE k = "configData" -> config_data.v
                       [] k = "deploymentBase" -> deployment_base.v
                       [] k = "cancelAction" -> cancel_action.v]]

PollJson(links) ==
    [k \in {"config", "_links"} |-> IF k = "config" THEN PollJsonNoLinks["config"] ELSE links]

\* The poll answers of the model: without _links, with each combination of the
\* three links, and with a deploymentBase link no request can be sent to.
PollJsons ==
    {PollJsonNoLinks}
    \cup {PollJson(LinksJson(c, d, a)) : c \in Opt({ConfigDataHref}),
                                         d \in Opt({DeploymentBaseHref}),
                                         a \in Opt({CancelActionHref})}
    \cup {PollJson(LinksJson(None, Some(<<"mailto", ":", "d">>), None))}

\* The download, the checks and the sleep parser, not in use.
ArtifactUnused ==
    /\ body = <<>>
    /\ hashes = NoHashes
    /\ checked = download_stream_with_md5_check(NoHashes)
    /\ emitted = <<>>
    /\ polls = 0
    /\ dropped = FALSE
    /\ plain = 1
    /\ plainOut = <<>>
    /\ dl = [pc |-> "Start", pos |-> 1, hashes |-> NoHashes]
    /\ file = NoFile
    /\ chk = [pc |-> "Idle", alg |-> "-", off |-> 0, hasher |-> new_md5(<<>>),
              runs |-> 0, prev |-> NotRun]
    /\ checkRet = NotRun
    /\ sleep = <<>>
    /\ sleepRet = NoSleep

ArtifactIdle ==
    /\ ArtifactUnused
    /\ DiskIdle

\* The client has been constructed and nothing was called.
InitPoll ==
    /\ pollBody \in PollJsons
    /\ sent = <<>>
    /\ reply = NoReply
    /\ got = NoHandles
    /\ updates = <<>>
    /\ ncalls = NoCalls
    /\ last = NoCall
    /\ ArtifactIdle

NextPoll ==
    \/ Poll
    \/ AccessConfigData
    \/ AccessUpdate
    \/ AccessCancelAction
    \/ Fetch

\* Polling, looking at the Reply and fetching the update, in any order.
SpecPoll == InitPoll /\ [][NextPoll]_vars

\* The client right after a Client::poll that was answered with json.
AfterPolled(json, r) ==
    /\ pollBody = json
    /\ sent = Reqs(r.sends)
    /\ reply = r.ret.v
    /\ got = NoHandles
    /\ updates = <<>>
    /\ ncalls = [NoCalls EXCEPT !.poll = 1]
    /\ last = [op |-> "Client::poll", args |-> <<>>, nets |-> <<Response(200, json)>>,
               sends |-> r.sends, ret |-> r.ret]

AfterPoll(json) == AfterPolled(json, Client_poll(TheClient, Response(200, json)))

\* A poll has returned a Reply with a deploymentBase and a cancelAction link, each
\* in one of the forms a server may give it.
InitFeedback ==
    /\ \/ \E d \in LinkForms(DeploymentBaseHref) :
            AfterPoll(PollJson(LinksJson(None, Some(d), Some(CancelActionHref))))
       \/ \E a \in LinkForms(CancelActionHref) :
            AfterPoll(PollJson(LinksJson(None, Some(DeploymentBaseHref), Some(a))))
    /\ ArtifactIdle

NextFeedback ==
    \/ AccessUpdate
    \/ AccessCancelAction
    \/ Fetch
    \/ UpdateSendFeedback
    \/ UpdateSendFeedbackWithProgress
    \/ CancelSendFeedback
    \/ CancelId

\* Feedback on an update and on a cancel action.
SpecFeedback == InitFeedback /\ [][NextFeedback]_vars

\* A poll has returned a Reply with a configData link.
InitConfig ==
    /\ \E c \in LinkForms(ConfigDataHref) : AfterPoll(PollJson(LinksJson(Some(c), None, None)))
    /\ ArtifactIdle

NextConfig ==
    \/ AccessConfigData
    \/ Upload

\* Uploads of the configuration.
SpecConfig == InitConfig /\ [][NextConfig]_vars

\* A poll has returned a Reply with a deploymentBase link.
InitDownload ==
    /\ AfterPoll(PollJson(LinksJson(None, Some(DeploymentBaseHref), None)))
    /\ ArtifactIdle

NextDownload ==
    \/ AccessUpdate
    \/ FetchDescriptor
    \/ ArtifactDownloadStream
    \/ UpdateDownload
    \/ ArtifactGet
    \/ ArtifactCreate
    \/ ArtifactChunk
    \/ ArtifactWrite
    \/ BlockingWrite

\* Fetching a deployment, downloading it into a directory and opening streams on
\* its artifacts.
SpecDownload == InitDownload /\ [][NextDownload]_vars

NextRead ==
    \/ AccessUpdate
    \/ FetchDescriptor
    \/ UpdateRead
    \/ ChunkArtifacts
    \/ UpdateSendFeedbackUsual
    \/ UpdateDownload
    \/ ArtifactGet
    \/ ArtifactCreate
    \/ ArtifactChunk
    \/ ArtifactWrite
    \/ BlockingWrite

\* Reading a fetched deployment while it is downloaded and feedback is sent.
SpecRead == InitDownload /\ [][NextRead]_vars

\* Deployments whose artifacts meet in one path: two artifacts of one chunk with the
\* same file name, and two chunks with the same name and an artifact of the same
\* file name each.
SharedDescriptors ==
    {DescriptorJson("forced", "forced", None,
        <<ChunkJson("c1", <<ArtifactJson("f1", {"download"}), ArtifactJson("f1", {"download-http"})>>)>>),
     DescriptorJson("forced", "forced", None,
        <<ChunkJson("c1", <<ArtifactJson("f1", {"download"})>>),
          ChunkJson("c1", <<ArtifactJson("f1", {"download-http"})>>)>>)}

\* A fetch of such a deployment.
FetchShared == FetchFrom(SharedDescriptors \cup {BadJson})

NextOverwrite ==
    \/ AccessUpdate
    \/ FetchShared
    \/ UpdateDownload
    \/ ArtifactGet
    \/ ArtifactCreate
    \/ ArtifactChunk
    \/ ArtifactWrite
    \/ BlockingWrite

\* Downloading a deployment whose artifacts share a path.
SpecOverwrite == InitDownload /\ [][NextOverwrite]_vars

----------------------------------------------------------------------------
(* The mock server of hawkbit_mock and its Targets.  A mock of its HTTP     *)
(* server answers the requests that match what it expects and counts them; *)
(* a request that no mock matches is answered 404.                         *)

\* MockServer::base_url, MockServer::url
HostUrl == <<"http", ":", "/", "/", "h">>
MockServer_url(path) == HostUrl \o path

\* MockServer::mock: the new mock has the next id and no hit.
MockServer_mock(srv, when, then) ==
    [srv EXCEPT !.mocks = Append(@, [live |-> TRUE, when |-> when, then |-> then, hits |-> 0])]

\* MockRef::id of the mock that was made last
LastMock(srv) == Len(srv.mocks)

\* MockRef::delete, MockRef::hits
MockRef_delete(srv, id) == [srv EXCEPT !.mocks[id].live = FALSE]
MockRef_hits(srv, id) == srv.mocks[id].hits

\* What a mock expects of a request: method, path, Authorization and, if it
\* expects one, the JSON body.
When(method, path, key, json) ==
    [method |-> method, path |-> path, auth |-> <<"TargetToken ", key>>, body |-> json]

MockMatches(m, req, json) ==
    /\ m.live
    /\ m.when.method = req.method
    /\ m.when.auth = req.auth
    /\ m.when.path = Url_parse(req.url).v.path
    /\ m.when.body.some => m.when.body.v = json

Matching(srv, req, json) == {i \in 1..Len(srv.mocks) : MockMatches(srv.mocks[i], req, json)}

LeastOf(ids) == CHOOSE i \in ids : \A j \in ids : i <= j

\* The mock server is sent a request: the first mock that matches it counts it and
\* answers; a request that was not built does not leave the client.
MockServer_handle(srv, req, json) ==
    IF ~req.built THEN [server |-> srv, net |-> SendError]
    ELSE IF Matching(srv, req, json) = {} THEN [server |-> srv, net |-> Response(404, NoBody)]
    ELSE LET i == LeastOf(Matching(srv, req, json))
         IN  [server |-> [srv EXCEPT !.mocks[i].hits = @ + 1],
              net |-> Response(srv.mocks[i].then.status, srv.mocks[i].then.body)]

\* The paths of a target on the server of a tenant.
TargetPath(tenant, name) == <<"/", tenant, "/", "controller", "/", "v1", "/", name>>

\* format!("/DEFAULT/controller/v1/{}/deploymentBase/{}", self.name, deploy.id)
push_deployment_path(name, id) ==
    TargetPath("DEFAULT", name) \o <<"/", "deploymentBase", "/", id>>

\* format!("/DEFAULT/controller/v1/{}/configData", self.name)
request_config_path(name) == TargetPath("DEFAULT", name) \o <<"/", "configData">>

\* format!("/{}/controller/v1/{}/deploymentBase/{}/feedback", self.tenant, ...)
expect_feedback_path(tenant, name, id) ==
    TargetPath(tenant, name) \o <<"/", "deploymentBase", "/", id, "/", "feedback">>

PendingAction(path, mock) == [path |-> path, mock |-> mock]

OptPath(pending) == IF pending.some THEN Some(pending.v.path) ELSE None

\* Target::create_poll: the mock of the poll resource, whose answer has the link of
\* each pending action that is there.
Target_create_poll(srv, tenant, name, key, expected_config_data, deployment) ==
    MockServer_mock(srv,
        When("GET", TargetPath(tenant, name), key, None),
        [status |-> 200,
         body |-> PollJson(LinksJson(OptPath(expected_config_data), OptPath(deployment), None))])

\* update_poll keeps the old mock and throws away the new one.
Target_update_poll_KeepOld(srv, name) ==
    LET t == srv.targets[name]
        made == Target_create_poll(srv, t.tenant, t.name, t.key, t.config_data, t.deployment)
    IN  MockRef_delete(made, LastMock(made))

\* Target::update_poll: a new poll mock is made of the pending actions of the target
\* and takes the place of the old one, which is deleted.
Target_update_poll(srv, name) ==
    LET t == srv.targets[name]
        made == Target_create_poll(srv, t.tenant, t.name, t.key, t.config_data, t.deployment)
    IN  MockRef_delete([made EXCEPT !.targets[name].poll = LastMock(made)], t.poll)

\* Every target is given the same key.
KeyOf_Same(name) == "KeyTarget1"

\* format!("Key{}", name)
KeyOf(name) == IF name = "Target1" THEN "KeyTarget1" ELSE "KeyTarget2"

\* Target::new, called by Server::add_target
Target_new(srv, name, tenant) ==
    LET made == Target_create_poll(srv, tenant, name, KeyOf(name), None, None)
    IN  [made EXCEPT !.targets =
            [n \in DOMAIN @ \cup {name} |->
                IF n = name
                THEN [name |-> name, key |-> KeyOf(name), tenant |-> tenant,
                      poll |-> LastMock(made), config_data |-> None, deployment |-> None]
                ELSE @[n]]]

\* impl Drop for PendingAction: the mock of a pending action that is replaced is deleted.
PendingAction_drop(srv, pending) ==
    IF pending.some THEN MockRef_delete(srv, pending.v.mock) ELSE srv

\* Target::request_config
Target_request_config(srv, name, expected_config_data) ==
    LET t == srv.targets[name]
        made == MockServer_mock(srv,
                    When("PUT", request_config_path(name), t.key, Some(expected_config_data)),
                    [status |-> 200, body |-> NoBody])
        set == [made EXCEPT !.targets[name].config_data =
                    Some(PendingAction(MockServer_url(request_config_path(name)), LastMock(made)))]
    IN  Target_update_poll(PendingAction_drop(set, t.config_data), name)

\* Chunk::json of the mock's DeploymentBuilder: every artifact has the four links,
\* the download ones to base_url/<file name>.
MockArtifactJson(art, base_url) ==
    [k \in {"filename", "hashes", "size", "_links"} |->
        CASE k = "filename" -> art.file_name
          [] k = "hashes" -> [sha1 |-> art.sha1, md5 |-> art.md5, sha256 |-> art.sha256]
          [] k = "size" -> Len(art.content)
          [] k = "_links" ->
               [key \in {"download", "download-http", "md5sum", "md5sum-http"} |->
                   [href |-> IF key \in {"download", "download-http"}
                             THEN base_url \o <<"/", art.file_name>>
                             ELSE base_url \o <<"/", art.file_name, ".MD5SUM">>]]]

MockChunkJson(chunk, base_url) ==
    [part |-> chunk.part, version |-> chunk.version, name |-> chunk.name,
     artifacts |-> [i \in DOMAIN chunk.artifacts |-> MockArtifactJson(chunk.artifacts[i], base_url)]]

\* Deployment::json
Deployment_json(deploy, base_url) ==
    [id |-> deploy.id,
     deployment |->
        [k \in {"download", "update", "chunks"}
               \cup (IF deploy.maintenance_window.some THEN {"maintenanceWindow"} ELSE {}) |->
            CASE k = "download" -> JsonString(deploy.download_type)
              [] k = "update" -> JsonString(deploy.update_type)
              [] k = "chunks" -> [i \in DOMAIN deploy.chunks |->
                                     MockChunkJson(deploy.chunks[i], base_url)]
              [] k = "maintenanceWindow" -> JsonString(deploy.maintenance_window.v)]]

\* The artifacts of the chunks of a deployment, in order.
RECURSIVE ArtifactsToServe(_)
ArtifactsToServe(chunks) ==
    IF chunks = <<>> THEN <<>>
    ELSE Head(chunks).artifacts \o ArtifactsToServe(Tail(chunks))

\* Target::push_deployment, "Serve the artifacts": one mock per artifact.
RECURSIVE ServeArtifacts(_, _, _)
ServeArtifacts(srv, key, arts) ==
    IF arts = <<>> THEN srv
    ELSE ServeArtifacts(
             MockServer_mock(srv,
                 When("GET", <<"/", "download", "/", Head(arts).file_name>>, key, None),
                 [status |-> 200, body |-> BytesBody(<<OkItem(Head(arts).content)>>)]),
             key, Tail(arts))

\* Target::push_deployment
Target_push_deployment(srv, name, deploy) ==
    LET t == srv.targets[name]
        made == MockServer_mock(srv,
                    When("GET", push_deployment_path(name, deploy.id), t.key, None),
                    [status |-> 200,
                     body |-> Deployment_json(deploy, MockServer_url(<<"/", "download">>))])
        served == ServeArtifacts(made, t.key, ArtifactsToServe(deploy.chunks))
        set == [served EXCEPT !.targets[name].deployment =
                    Some(PendingAction(MockServer_url(push_deployment_path(name, deploy.id)),
                                       LastMock(made)))]
    IN  Target_update_poll(PendingAction_drop(set, t.deployment), name)

\* The JSON expect_feedback expects: progress is null when it is None.
expect_feedback_json(deployment_id, execution, finished, progress, details) ==
    [id |-> deployment_id,
     status |-> [result |-> [progress |-> IF progress.some THEN progress.v ELSE JsonNull,
                             finished |-> Finished_serialize(finished)],
                 execution |-> Execution_serialize(execution),
                 details |-> details]]

\* Target::expect_feedback: the mock it returns is the last one of the server.
Target_expect_feedback(srv, name, deployment_id, execution, finished, progress, details) ==
    MockServer_mock(srv,
        When("POST", expect_feedback_path(srv.targets[name].tenant, name, deployment_id),
             srv.targets[name].key,
             Some(expect_feedback_json(deployment_id, execution, finished, progress, details))),
        [status |-> 200, body |-> NoBody])

\* Target::poll_hits, Target::config_data_hits, Target::deployment_hits
Target_poll_hits(srv, name) == MockRef_hits(srv, srv.targets[name].poll)

PendingHits(srv, pending) == IF pending.some THEN MockRef_hits(srv, pending.v.mock) ELSE 0

Target_config_data_hits(srv, name) == PendingHits(srv, srv.targets[name].config_data)
Target_deployment_hits(srv, name) == PendingHits(srv, srv.targets[name].deployment)

----------------------------------------------------------------------------
(* A mock server with two targets, and one client per target.  Beside the  *)
(* server that both targets share, each client's record holds a server on  *)
(* which its target is alone and is sent the same calls.                   *)

TargetNames == {"Target1", "Target2"}
MockTenants == {"DEFAULT", "my-tenant"}

\* How many calls are made on the targets and by their clients.
MaxOps == 4

\* #[serde(rename_all = "lowercase")] on Type and MaintenanceWindow, written by json!
Type_serialize(t) ==
    CASE t = "Skip" -> "skip"
      [] t = "Attempt" -> "attempt"
      [] t = "Forced" -> "forced"

MaintenanceWindow_serialize(w) ==
    CASE w = "Available" -> "available"
      [] w = "Unavailable" -> "unavailable"

\* DeploymentBuilder::new(id, download_type, update_type), maintenance_window, chunk, build
DeploymentBuilder_build(id, download_type, update_type, window, chunks) ==
    [id |-> id, download_type |-> Type_serialize(download_type),
     update_type |-> Type_serialize(update_type),
     maintenance_window |-> IF window.some THEN Some(MaintenanceWindow_serialize(window.v))
                            ELSE None,
     chunks |-> chunks]

\* A file of one byte with its sums, as the tests pass it to DeploymentBuilder::chunk.
MockArtifact(file_name, content) ==
    [file_name |-> file_name, content |-> content, md5 |-> HexDigest("Md5", content),
     sha1 |-> HexDigest("Sha1", content), sha256 |-> HexDigest("Sha256", content)]

\* The deployments the tests push: one with a chunk of one artifact, and one with an
\* empty chunk and a chunk whose artifact has the same file name and other bytes.
MockDeployments ==
    {DeploymentBuilder_build("10", "Forced", "Attempt", Some("Available"),
        <<[part |-> "app", version |-> "1.0", name |-> "c1",
           artifacts |-> <<MockArtifact("f1", <<1>>)>>]>>),
     DeploymentBuilder_build("11", "Attempt", "Skip", None,
        <<[part |-> "os", version |-> "2.0", name |-> "c1", artifacts |-> <<>>],
          [part |-> "app", version |-> "2.0", name |-> "c2",
           artifacts |-> <<MockArtifact("f1", <<2>>)>>]>>)}

\* The feedback and the configuration of the tests.
MockProgress == Struct(TRUE)
MockDetails == <<"Done">>
MockConfig ==
    ConfigData_serialize(ConfigData_new("Closed", "Success", Some("Merge"), Struct(TRUE),
                                        <<"Some stuffs">>))

\* What a call of a client has returned.
Result(op, v) == [op |-> op, v |-> v]

\* The client of a target, as the tests make it, before it has called anything; the
\* server on which the target is alone; whether the configuration was requested of
\* the target and which deployment was pushed to it last; and the MockRef of the
\* last expect_feedback.
NewPeer(name, tenant) ==
    [client |-> Client_new(HostUrl, tenant, name, KeyOf(name)).v,
     reply |-> NoReply, update |-> None, polls |-> 0, calls |-> 0, ops |-> 0,
     config |-> FALSE, deployed |-> None,
     req |-> None, ret |-> Result("none", NotCalled),
     alone |-> Target_new(NoServer, name, tenant), aloneRet |-> Result("none", NotCalled),
     expect |-> None]

Ops == peers["Target1"].ops + peers["Target2"].ops

\* ServerBuilder::default().tenant(tenant).build(), then add_target of both targets.
Server_build(tenant) == Target_new(Target_new(NoServer, "Target1", tenant), "Target2", tenant)

\* The calls by which a test sets its targets up before its clients start, made on
\* a server in the order of the list; a call on a target the server does not have
\* is left out.
RECURSIVE SetUp(_, _)
SetUp(srv, calls) ==
    IF calls = <<>> THEN srv
    ELSE LET call == Head(calls)
         IN  SetUp(IF call.name \notin DOMAIN srv.targets THEN srv
                   ELSE IF call.op = "request_config"
                   THEN Target_request_config(srv, call.name, MockConfig)
                   ELSE Target_push_deployment(srv, call.name, call.deploy),
                   Tail(calls))

\* The id of the deployment that was pushed last to a target by the calls.
RECURSIVE LastPushed(_, _)
LastPushed(calls, name) ==
    IF calls = <<>> THEN None
    ELSE LET call == calls[Len(calls)]
         IN  IF call.op = "push_deployment" /\ call.name = name THEN Some(call.deploy.id)
             ELSE LastPushed(SubSeq(calls, 1, Len(calls) - 1), name)

RequestConfig(name) == [op |-> "request_config", name |-> name]
PushDeployment(name, deploy) == [op |-> "push_deployment", name |-> name, deploy |-> deploy]

\* The set-ups of the model: each target is pushed a deployment, in either order,
\* and one of them is asked for its configuration.
SetUps ==
    {<<PushDeployment(a, d), PushDeployment(b, e), RequestConfig(c)>> :
        <<a, b, c, d, e>> \in {<<x, y, z, d, e>> \in TargetNames \X TargetNames \X TargetNames
                                                      \X MockDeployments \X MockDeployments :
                                    x # y /\ z = "Target1" /\ (d.id = "10" \/ e.id = "10")}}

\* The stream, the DDI client of the other parts and the disk are not in use.
MockOnly ==
    /\ other = NoStream
    /\ NothingOnDisk
    /\ DdiUnused
    /\ ArtifactUnused

\* The targets were added and nothing else was called.
InitTargets ==
    /\ \E tenant \in MockTenants :
         /\ server = Server_build(tenant)
         /\ peers = [name \in TargetNames |-> NewPeer(name, tenant)]
    /\ MockOnly

\* The targets were added and set up, and the clients have not called anything.
InitPeers ==
    /\ \E tenant \in MockTenants, calls \in SetUps :
         /\ server = SetUp(Server_build(tenant), calls)
         /\ peers = [name \in TargetNames |->
                        [NewPeer(name, tenant) EXCEPT
                            !.alone = SetUp(Target_new(NoServer, name, tenant), calls),
                            !.config = \E i \in DOMAIN calls : calls[i] = RequestConfig(name),
                            !.deployed = LastPushed(calls, name)]]
    /\ MockOnly

\* A call on a target: on the server and on the one where the target is alone.
TargetCalled(name, srv, alone, config, deployed) ==
    /\ server' = srv
    /\ peers' = [peers EXCEPT ![name] = [@ EXCEPT !.alone = alone, !.ops = @ + 1,
                                                 !.config = config, !.deployed = deployed]]

TargetRequestConfig ==
    /\ Ops < MaxOps
    /\ \E name \in TargetNames :
         TargetCalled(name, Target_request_config(server, name, MockConfig),
                      Target_request_config(peers[name].alone, name, MockConfig),
                      TRUE, peers[name].deployed)
    /\ UNCHANGED other
    /\ UNCHANGED <<streamVars, sleepVars, ddiVars, diskVars>>

TargetPushDeployment ==
    /\ Ops < MaxOps
    /\ \E name \in TargetNames, deploy \in MockDeployments :
         TargetCalled(name, Target_push_deployment(server, name, deploy),
                      Target_push_deployment(peers[name].alone, name, deploy),
                      peers[name].config, Some(deploy.id))
    /\ UNCHANGED other
    /\ UNCHANGED <<streamVars, sleepVars, ddiVars, diskVars>>

\* expect_feedback for a deployment, with the feedback of the tests; the test holds
\* one such MockRef per target.
TargetExpectFeedback ==
    /\ Ops < MaxOps
    /\ \E name \in TargetNames, id \in {d.id : d \in MockDeployments} :
         /\ ~peers[name].expect.some
         /\ LET srv == Target_expect_feedback(server, name, id, "Closed", "Success",
                                           Some(to_json(MockProgress)), MockDetails)
            IN  /\ server' = srv
                /\ peers' = [peers EXCEPT ![name] =
                      [@ EXCEPT !.alone = Target_expect_feedback(@, name, id, "Closed", "Success",
                                              Some(to_json(MockProgress)), MockDetails),
                                !.expect = Some([id |-> id, mock |-> LastMock(srv)]),
                                !.ops = @ + 1]]
    /\ UNCHANGED other
    /\ UNCHANGED <<streamVars, sleepVars, ddiVars, diskVars>>

\* What the server does with the request of a call, if the call has made one.
Handled(srv, sends) ==
    IF sends = <<>> THEN [server |-> srv, net |-> SendError]
    ELSE MockServer_handle(srv, sends[1].req, sends[1].body)

\* A client has made a call: its request, what it got, and what it gets where its
\* target is alone.
PeerCalled(name, sends, h, ret, ha, aloneRet) ==
    /\ server' = h.server
    /\ peers' = [peers EXCEPT ![name] =
          [@ EXCEPT !.alone = ha.server, !.ops = @ + 1, !.calls = @ + 1,
                    !.req = IF sends = <<>> THEN None ELSE Some(sends[1].req),
                    !.ret = ret, !.aloneRet = aloneRet,
                    !.polls = IF ret.op = "poll" THEN @ + 1 ELSE @,
                    !.reply = IF ret.op = "poll" /\ ret.v.k = "Ok" THEN ret.v.v ELSE @,
                    !.update = IF ret.op = "poll" /\ ret.v.k = "Ok" THEN None
                               ELSE IF ret.op = "fetch" /\ ret.v.k = "Ok" THEN Some(ret.v.v)
                               ELSE @]]

\* The client of a target polls.
PeerPoll ==
    /\ Ops < MaxOps
    /\ \E name \in TargetNames :
         LET c == peers[name].client
             sends == Client_poll(c, SendError).sends
             h == Handled(server, sends)
             ha == Handled(peers[name].alone, sends)
         IN  PeerCalled(name, sends, h, Result("poll", Client_poll(c, h.net).ret),
                        ha, Result("poll", Client_poll(c, ha.net).ret))
    /\ UNCHANGED other
    /\ UNCHANGED <<streamVars, sleepVars, ddiVars, diskVars>>

\* The client fetches the update its last Reply offers.
PeerFetch ==
    /\ Ops < MaxOps
    /\ \E name \in TargetNames :
         /\ peers[name].reply # NoReply
         /\ Reply_update(peers[name].reply).ret.some
         /\ LET pre == Reply_update(peers[name].reply).ret.v
                sends == UpdatePreFetch_fetch(pre, SendError).sends
                h == Handled(server, sends)
                ha == Handled(peers[name].alone, sends)
            IN  PeerCalled(name, sends, h, Result("fetch", UpdatePreFetch_fetch(pre, h.net).ret),
                           ha, Result("fetch", UpdatePreFetch_fetch(pre, ha.net).ret))
    /\ UNCHANGED other
    /\ UNCHANGED <<streamVars, sleepVars, ddiVars, diskVars>>

\* The client uploads the configuration its last Reply asks for.
PeerUpload ==
    /\ Ops < MaxOps
    /\ \E name \in TargetNames :
         /\ peers[name].reply # NoReply
         /\ Reply_config_data_request(peers[name].reply).ret.some
         /\ LET cr == Reply_config_data_request(peers[name].reply).ret.v
                sends == ConfigRequest_upload(cr, "Closed", "Success", Some("Merge"),
                                              Struct(TRUE), <<"Some stuffs">>, SendError).sends
                h == Handled(server, sends)
                ha == Handled(peers[name].alone, sends)
            IN  PeerCalled(name, sends, h,
                    Result("upload", ConfigRequest_upload(cr, "Closed", "Success", Some("Merge"),
                                         Struct(TRUE), <<"Some stuffs">>, h.net).ret),
                    ha,
                    Result("upload", ConfigRequest_upload(cr, "Closed", "Success", Some("Merge"),
                                         Struct(TRUE), <<"Some stuffs">>, ha.net).ret))
    /\ UNCHANGED other
    /\ UNCHANGED <<streamVars, sleepVars, ddiVars, diskVars>>

\* The client sends the feedback of the tests through the Update it has fetched.
PeerFeedback ==
    /\ Ops < MaxOps
    /\ \E name \in TargetNames :
         /\ peers[name].update.some
         /\ LET u == peers[name].update.v
                sends == Update_send_feedback_with_progress(u, "Closed", "Success",
                             MockProgress, MockDetails, SendError).sends
                h == Handled(server, sends)
                ha == Handled(peers[name].alone, sends)
            IN  PeerCalled(name, sends, h,
                    Result("feedback", Update_send_feedback_with_progress(u, "Closed", "Success",
                                           MockProgress, MockDetails, h.net).ret),
                    ha,
                    Result("feedback", Update_send_feedback_with_progress(u, "Closed", "Success",
                                           MockProgress, MockDetails, ha.net).ret))
    /\ UNCHANGED other
    /\ UNCHANGED <<streamVars, sleepVars, ddiVars, diskVars>>

\* The artifacts of an Update, in the order of its chunks.
RECURSIVE ArtifactsIn(_)
ArtifactsIn(chunks) ==
    IF chunks = <<>> THEN <<>>
    ELSE Chunk_artifacts(Head(chunks)) \o ArtifactsIn(Tail(chunks))

\* The client requests an artifact of the Update it has fetched.
PeerDownload ==
    /\ Ops < MaxOps
    /\ \E name \in TargetNames :
         /\ peers[name].update.some
         /\ \E i \in DOMAIN ArtifactsIn(Update_chunks(peers[name].update.v)) :
              LET art == ArtifactsIn(Update_chunks(peers[name].update.v))[i]
                  sends == Artifact_download_response(art, SendError).sends
                  h == Handled(server, sends)
                  ha == Handled(peers[name].alone, sends)
              IN  PeerCalled(name, sends, h,
                      Result("download", Artifact_download_response(art, h.net).ret),
                      ha, Result("download", Artifact_download_response(art, ha.net).ret))
    /\ UNCHANGED other
    /\ UNCHANGED <<streamVars, sleepVars, ddiVars, diskVars>>

NextTargets ==
    \/ TargetRequestConfig
    \/ TargetPushDeployment
    \/ PeerPoll

\* The calls of a test on its targets, between the polls of their clients.
SpecTargets == InitTargets /\ [][NextTargets]_vars

NextPeers ==
    \/ TargetExpectFeedback
    \/ PeerPoll
    \/ PeerFetch
    \/ PeerUpload
    \/ PeerFeedback
    \/ PeerDownload

\* Two clients, each with its target, calling in any order.
SpecPeers == InitPeers /\ [][NextPeers]_vars

----------------------------------------------------------------------------
(* Claims about the DDI client: poll, handles, feedback and upload.        *)

\* The link of the given name in the poll answer of the server, if it is there.
LinkPresent(key) == "_links" \in DOMAIN pollBody /\ key \in DOMAIN pollBody["_links"]

\* The accessors of Reply and the link each one stands for.
AccessorLink == [config_data_request |-> "configData", update |-> "deploymentBase", cancel_action |-> "cancelAction"]

AccessorOps == {"Reply::config_data_request", "Reply::update", "Reply::cancel_action"}

IsPollGet(req) == req.method = "GET" /\ req.url = BaseHref
IsOtherGet(req) == req.method = "GET" /\ req.url # BaseHref
IsPut(req) == req.method = "PUT"

\* The numbers of requests of a log: GETs of the base resource, other GETs, PUTs.
PollGets(log) == Cardinality({i \in 1..Len(log) : IsPollGet(log[i])})
OtherGets(log) == Cardinality({i \in 1..Len(log) : IsOtherGet(log[i])})
Puts(log) == Cardinality({i \in 1..Len(log) : IsPut(log[i])})

\* C11: each accessor of a Reply returns a handle exactly when its own link is in
\* the poll answer, whatever the other two links are: all eight combinations of
\* links, and an answer without _links, give the handles of the links present.
C11_HandleIffOwnLink ==
    \A h \in DOMAIN AccessorLink :
        got[h] # NotCalled => (IsSome(got[h]) <=> LinkPresent(AccessorLink[h]))

\* One Reply has handed out all three handles.
C11_Witness ==
    /\ IsSome(got.config_data_request)
    /\ IsSome(got.update)
    /\ IsSome(got.cancel_action)
    /\ got.update.v.url = DeploymentBaseHref
    /\ got.cancel_action.v.url = CancelActionHref

\* C12: the accessors send nothing and answer the same every time they are called
\* on a Reply; only fetch sends the GET of the deployment link, one per call: none
\* has been sent after the poll, one after the first fetch.
C12_AccessorsLazyFetchOneGet ==
    /\ [](/\ last.op \in AccessorOps => last.sends = <<>>
          /\ last.op = "UpdatePreFetch::fetch" =>
                 Len(last.sends) = 1 /\ IsOtherGet(last.sends[1].req)
          /\ OtherGets(sent) = ncalls.fetch)
    /\ [][/\ reply' = reply =>
               \A h \in DOMAIN AccessorLink :
                   (got[h] # NotCalled /\ got'[h] # NotCalled) => got'[h] = got[h]
          /\ last'.op \in AccessorOps => sent' = sent /\ reply' = reply]_vars

\* The descriptor was fetched once, after the accessors had been called twice.
C12_Witness ==
    /\ last.op = "UpdatePreFetch::fetch"
    /\ ncalls.fetch = 1
    /\ ncalls.access >= 2
    /\ OtherGets(sent) = 1
    /\ Len(updates) = 1

\* C13: each poll hands exactly one GET of the base resource, with the target
\* token, to the transport; a failed poll (transport error, error status,
\* undecodable body) returns its error and is not tried again.
C13_PollOneGet ==
    /\ PollGets(sent) = ncalls.poll
    /\ last.op = "Client::poll" =>
           /\ Len(last.sends) = 1
           /\ last.sends[1].req.method = "GET"
           /\ last.sends[1].req.url = BaseHref
           /\ last.sends[1].req.auth = <<"TargetToken ", "KeyTarget1">>
           /\ last.ret.k = "Ok" <=>
                  (last.nets[1].k = "Resp" /\ last.nets[1].status = 200 /\ last.nets[1].body # BadJson)

\* A second poll failed on an error status.
C13_Witness ==
    /\ last.op = "Client::poll"
    /\ ncalls.poll = 2
    /\ last.nets[1].k = "Resp" /\ last.nets[1].status = 500
    /\ last.ret = ReqwestError
    /\ PollGets(sent) = 2

\* The href of a link of the poll answer.
LinkHref(key) == pollBody["_links"][key].href

\* A URL string without its query string.
StripQuery(s) == SubSeq(s, 1, FirstIn(s, {"?"}) - 1)

UpdateFeedbackOps == {"Update::send_feedback", "Update::send_feedback_with_progress"}

FeedbackOps == UpdateFeedbackOps \cup {"CancelAction::send_feedback"}

\* C14: feedback on an Update is one POST to the deploymentBase link with its query
\* string removed and "/feedback" appended, and the id of its body is the action id
\* the server returned to the fetch that created the Update; this holds for every
\* feedback call on the Update, whatever the earlier calls returned.
C14_FeedbackUrlAndId ==
    /\ [](last.op \in UpdateFeedbackOps =>
            /\ Len(last.sends) = 1
            /\ last.sends[1].req.method = "POST"
            /\ last.sends[1].req.built
            /\ last.sends[1].req.url = StripQuery(LinkHref("deploymentBase")) \o <<"/", "feedback">>
            /\ last.sends[1].body.id = updates[last.args.update].info.id)
    /\ [][(last'.op = "UpdatePreFetch::fetch" /\ last'.ret.k = "Ok") =>
            /\ updates' = Append(updates, last'.ret.v)
            /\ last'.ret.v.info.id = last'.nets[1].body.id
            /\ last'.ret.v.url = LinkHref("deploymentBase")]_vars
    /\ [][\A u \in 1..Len(updates) : u <= Len(updates') /\ updates'[u] = updates[u]]_vars

\* A second feedback call on an Update whose link has a query string; the server
\* answered it with an error status.
C14_Witness ==
    /\ last.op \in UpdateFeedbackOps
    /\ ncalls.feedback >= 2
    /\ LinkHref("deploymentBase") = DeploymentBaseHref \o <<"?", "c=1">>
    /\ last.nets[1].k = "Resp" /\ last.nets[1].status = 500
    /\ last.sends[1].req.url = DeploymentBaseHref \o <<"/", "feedback">>
    /\ last.sends[1].body.id = updates[last.args.update].info.id

\* The URL can be parsed and can be used as a base to append a segment to.
Rewritable(url) == Url_parse(url).k = "Ok" /\ ~Url_parse(url).v.cannot_be_a_base

\* The action URL held by the handle of the last feedback call.
CallUrl ==
    IF last.op \in UpdateFeedbackOps THEN updates[last.args.update].url
    ELSE got.cancel_action.v.url

\* The POSTs of the last call.
Posts == SelectSeq(last.sends, LAMBDA s : s.req.method = "POST")

\* The GET by which CancelAction::send_feedback resolves the action id succeeded.
IdResolved ==
    /\ last.sends[1].req.built
    /\ last.nets[1].k = "Resp" /\ last.nets[1].status = 200 /\ last.nets[1].body # BadJson

\* The POST of the last call was sent and answered with a success status.
PostAccepted ==
    /\ Posts[1].req.built
    /\ last.nets[Len(last.nets)].k = "Resp" /\ last.nets[Len(last.nets)].status = 200

\* C15, as stated: each feedback call whose URL can be rewritten performs exactly
\* one POST, and a POST that fails returns the error without being repeated.
C15_OnePostWheneverRewritable ==
    (last.op \in FeedbackOps /\ Rewritable(CallUrl)) =>
        /\ Len(Posts) = 1
        /\ last.ret = OkUnit <=> PostAccepted

\* C15, amended: a feedback call performs at most one POST and returns the error of
\* a POST that failed without repeating it.  On an Update with a rewritable URL it
\* performs exactly one; on a CancelAction it performs exactly one when the URL is
\* rewritable and the GET that resolves the action id succeeded, and none, returning
\* the error of that GET, when the GET failed.
C15_AtMostOnePostNoRetry ==
    last.op \in FeedbackOps =>
        /\ Len(Posts) <= 1
        /\ Len(Posts) = 1 => (last.ret = OkUnit <=> PostAccepted)
        /\ (last.op \in UpdateFeedbackOps /\ Rewritable(CallUrl)) =>
               Len(last.sends) = 1 /\ Len(Posts) = 1
        /\ (last.op = "CancelAction::send_feedback" /\ Rewritable(CallUrl) /\ IdResolved) =>
               Len(last.sends) = 2 /\ Len(Posts) = 1 /\ Posts[1] = last.sends[2]
        /\ (last.op = "CancelAction::send_feedback" /\ ~IdResolved) =>
               Len(last.sends) = 1 /\ Len(Posts) = 0 /\ last.ret = ReqwestError

\* A feedback on an Update whose only POST met a transport failure, and the error
\* came back.
C15_Witness ==
    /\ last.op = "Update::send_feedback"
    /\ Rewritable(CallUrl)
    /\ last.nets = <<SendError>>
    /\ Len(Posts) = 1
    /\ last.ret = ReqwestError

\* A feedback on a CancelAction with a rewritable URL whose id could not be resolved.
C15_WitnessIdFailed ==
    /\ last.op = "CancelAction::send_feedback"
    /\ Rewritable(CallUrl)
    /\ ~IdResolved
    /\ Len(Posts) = 0

\* C16, as stated: a feedback call on an Update or CancelAction whose URL cannot be
\* parsed or cannot be a base returns ParseUrlError and sends no POST.
C16_ParseUrlErrorAndNoPost ==
    (last.op \in FeedbackOps /\ ~Rewritable(CallUrl)) =>
        /\ last.ret.k = "Err" /\ last.ret.e = "ParseUrlError"
        /\ Len(Posts) = 0

\* C16, amended: a feedback call on a CancelAction whose URL cannot be parsed or
\* cannot be a base returns the ReqwestError of the GET that resolves the action id,
\* which is refused before anything is sent, and no POST follows; an Update never
\* holds such a URL, since its fetch succeeded on it; and every POST goes to a URL
\* that ends in the segment "feedback".
C16_UnusableUrlFailsBeforePost ==
    /\ \A u \in 1..Len(updates) : Rewritable(updates[u].url)
    /\ (last.op = "CancelAction::send_feedback" /\ ~Rewritable(CallUrl)) =>
           /\ last.ret = ReqwestError
           /\ Len(last.sends) = 1
           /\ last.sends[1].req.method = "GET" /\ ~last.sends[1].req.built
    /\ last.op \in FeedbackOps =>
           \A i \in 1..Len(Posts) :
               /\ Posts[i].req.url # CallUrl
               /\ SubSeq(Posts[i].req.url, Len(Posts[i].req.url) - 1, Len(Posts[i].req.url))
                      = <<"/", "feedback">>

\* A feedback on a CancelAction whose link is a URL that cannot be a base.
C16_Witness ==
    /\ last.op = "CancelAction::send_feedback"
    /\ CallUrl = <<"mailto", ":", "d">>
    /\ ~Rewritable(CallUrl)
    /\ last.ret = ReqwestError

\* C17: every feedback the client posts with finished = success or failure has
\* execution = closed.
C17_TerminalOutcomeIsClosed ==
    \A i \in 1..Len(Posts) :
        Posts[i].body.status.result.finished \in {JsonString("success"), JsonString("failure")}
            => Posts[i].body.status.execution = JsonString("closed")

\* C18: the result of a posted feedback has a progress that is not null, or no
\* progress key at all.
C18_NoNullProgress ==
    \A i \in 1..Len(Posts) :
        "progress" \in DOMAIN Posts[i].body.status.result
            => Posts[i].body.status.result.progress # JsonNull

\* The names the server reads in a body for the values of the caller.
WireName ==
    [Closed |-> "closed", Proceeding |-> "proceeding", Canceled |-> "canceled",
     Scheduled |-> "scheduled", Rejected |-> "rejected", Resumed |-> "resumed",
     Success |-> "success", Failure |-> "failure", None |-> "none",
     Merge |-> "merge", Replace |-> "replace", Remove |-> "remove"]

\* The data of the caller as the server reads it.
WireData(d) == IF d = Unit THEN JsonNull ELSE [j |-> "object", awesome |-> d.awesome]

\* C19: the body of an upload has the execution, finished, details, mode and data
\* the caller passed, the details in their order and none dropped, and it is put to
\* the configData link of the poll answer.
C19_UploadBodyIsCallersValues ==
    last.op = "ConfigRequest::upload" =>
        /\ Len(last.sends) = 1
        /\ last.sends[1].req.method = "PUT"
        /\ last.sends[1].req.url \in {LinkHref("configData"), LinkHref("configData") \o <<"/">>}
        /\ DOMAIN last.sends[1].body = {"status", "mode", "data"}
        /\ last.sends[1].body.status.execution = JsonString(WireName[last.args.execution])
        /\ last.sends[1].body.status.result = [finished |-> JsonString(WireName[last.args.finished])]
        /\ last.sends[1].body.status.details = last.args.details
        /\ last.sends[1].body.mode = IF last.args.mode.some
                                     THEN JsonString(WireName[last.args.mode.v])
                                     ELSE JsonNull
        /\ last.sends[1].body.data = WireData(last.args.data)

\* An accepted upload of two details, a mode and a payload.
C19_Witness ==
    /\ last.op = "ConfigRequest::upload"
    /\ last.args.details = <<"a", "b">>
    /\ last.args.mode = Some("Replace")
    /\ last.args.data = Struct(FALSE)
    /\ last.sends[1].body.status.details = <<"a", "b">>
    /\ last.sends[1].req.url = ConfigDataHref
    /\ last.ret = OkUnit

\* C20: each upload hands exactly one PUT and nothing else to the transport, so k
\* uploads make k PUTs, and an upload the server answers with an error status
\* returns an error.
C20_OnePutPerUpload ==
    /\ Puts(sent) = ncalls.upload
    /\ Len(sent) = ncalls.poll + ncalls.upload
    /\ last.op = "ConfigRequest::upload" =>
           /\ Len(last.sends) = 1
           /\ IsPut(last.sends[1].req)
           /\ (last.nets[1].k = "Resp" /\ last.nets[1].status >= 400) => last.ret = ReqwestError
           /\ last.ret = OkUnit <=>
                  (last.sends[1].req.built /\ last.nets[1].k = "Resp" /\ last.nets[1].status = 200)

\* A third upload of the same Reply, answered with an error status.
C20_Witness ==
    /\ last.op = "ConfigRequest::upload"
    /\ ncalls.upload = 3
    /\ Puts(sent) = 3
    /\ sent[2] = sent[3] /\ sent[3] = sent[4]
    /\ last.sends[1].req.built
    /\ last.nets[1].k = "Resp" /\ last.nets[1].status = 500
    /\ last.ret = ReqwestError

\* C21: at most one upload is ever made through one ConfigRequest: an upload is
\* never followed by another upload through the same handle.
C21_OneUploadPerConfigRequest ==
    [][~(/\ last.op = "ConfigRequest::upload"
         /\ last'.op = "ConfigRequest::upload"
         /\ ncalls'.upload = ncalls.upload + 1
         /\ got'.config_data_request = got.config_data_request)]_vars

\* C22: every CancelAction::send_feedback starts with its own GET of the
\* cancelAction link; at most one POST follows, to the feedback endpoint of the
\* link and only when the GET succeeded; when the GET fails, is answered with an
\* error status or cannot be decoded, the call returns that error without a POST.
C22_CancelFeedbackGetThenPost ==
    /\ [](last.op = "CancelAction::send_feedback" =>
            /\ Len(last.sends) \in {1, 2}
            /\ last.sends[1].req.method = "GET"
            /\ last.sends[1].req.url \in {LinkHref("cancelAction"), LinkHref("cancelAction") \o <<"/">>}
            /\ Len(last.sends) = 2 =>
                   /\ IdResolved
                   /\ last.sends[2].req.method = "POST"
                   /\ last.sends[2].req.url
                          = StripQuery(LinkHref("cancelAction")) \o <<"/", "feedback">>
            /\ ~IdResolved => Len(last.sends) = 1 /\ last.ret = ReqwestError)
    /\ [][(last'.op = "CancelAction::send_feedback" /\ ncalls'.feedback = ncalls.feedback + 1) =>
            /\ Len(sent') = Len(sent) + Len(last'.sends)
            /\ sent'[Len(sent) + 1] = last'.sends[1].req
            /\ sent'[Len(sent) + 1].method = "GET"]_vars

\* A second feedback on the CancelAction: its GET was answered and its POST failed.
C22_Witness ==
    /\ last.op = "CancelAction::send_feedback"
    /\ ncalls.feedback = 2
    /\ LinkHref("cancelAction") = CancelActionHref \o <<"?", "c=1">>
    /\ IdResolved
    /\ Len(last.sends) = 2
    /\ last.nets[2] = SendError
    /\ last.ret = ReqwestError

\* A feedback on the CancelAction whose GET was answered with an error status.
C22_WitnessGetFailed ==
    /\ last.op = "CancelAction::send_feedback"
    /\ last.sends[1].req.built
    /\ last.nets[1].k = "Resp" /\ last.nets[1].status = 500
    /\ Len(last.sends) = 1
    /\ last.ret = ReqwestError

\* C23: the id of a cancel feedback is the cancelAction.stopId the GET of that same
\* call returned, not the id of the cancel reply, and CancelAction::id returns that
\* stopId.
C23_CancelFeedbackIdIsStopId ==
    /\ (last.op = "CancelAction::send_feedback" /\ Len(last.sends) = 2) =>
           /\ last.sends[2].body.id = last.nets[1].body.cancelAction.stopId
           /\ last.sends[2].body.id # last.nets[1].body.id
    /\ last.op = "CancelAction::id" =>
           /\ Len(last.sends) = 1
           /\ last.ret.k = "Ok" <=> IdResolved
           /\ last.ret.k = "Ok" => last.ret.v = last.nets[1].body.cancelAction.stopId
           /\ last.ret.k # "Ok" => last.ret = ReqwestError

\* After an id() call and an earlier feedback, a cancel feedback carried the stopId
\* "11" its own GET had just returned.
C23_Witness ==
    /\ last.op = "CancelAction::send_feedback"
    /\ ncalls.id >= 1 /\ ncalls.feedback >= 2
    /\ Len(last.sends) = 2
    /\ last.nets[1].body = CancelJson("20", "11")
    /\ last.sends[2].body.id = "11"

\* CancelAction::id returned the stopId "10".
C23_WitnessId ==
    /\ last.op = "CancelAction::id"
    /\ last.nets[1].body = CancelJson("20", "10")
    /\ last.ret = Ok("10")

\* C30: a check_<algo> changes neither the file nor the declared hashes the
\* DownloadedArtifact retains, whether it succeeds or fails: the file is still
\* there after a mismatch, and the same check repeated on the file gives the same
\* result.
C30_CheckLeavesDownloadUnchanged ==
    /\ [][(chk' # chk \/ checkRet' # checkRet) =>
              file' = file /\ dl' = dl /\ hashes' = hashes]_vars
    /\ [](chk.pc = "Done" =>
              /\ dl.pc = "Ok" /\ dl.hashes = hashes
              /\ chk.prev.alg = checkRet.alg => chk.prev.ret = checkRet.ret)

\* The sha256 check of a file of two bytes failed twice, with different reads, and
\* the file is still there.
C30_Witness ==
    /\ chk.pc = "Done" /\ chk.runs = 2
    /\ chk.prev = checkRet
    /\ checkRet = [alg |-> "Sha256", ret |-> ChecksumError("Sha256")]
    /\ Len(file) = 2
    /\ dl.hashes = hashes

----------------------------------------------------------------------------
(* Claims about the Update: its deployment, its accessors and its download. *)

\* The artifacts of an Update, as pairs of the index of a chunk and that of an
\* artifact of the chunk.
ArtifactsOf(info) ==
    UNION {{<<c, a>> : a \in DOMAIN info.deployment.chunks[c].artifacts} :
              c \in DOMAIN info.deployment.chunks}

\* The deployment the server has sent declares an artifact without "download" and
\* without "download-http".
HasLinklessArtifact(json) ==
    \E c \in DOMAIN json["deployment"]["chunks"] :
       \E a \in DOMAIN json["deployment"]["chunks"][c]["artifacts"] :
          {"download", "download-http"}
              \cap DOMAIN json["deployment"]["chunks"][c]["artifacts"][a]["_links"] = {}

\* The last call was a fetch that the server answered with a deployment.
FetchedDescriptor ==
    /\ last.op = "UpdatePreFetch::fetch"
    /\ last.nets[1].k = "Resp" /\ last.nets[1].status = 200
    /\ "deployment" \in DOMAIN last.nets[1].body

StreamOps == {StreamOp(algo) : algo \in StreamChecks}

\* C26: every artifact of every Update that fetch has returned has an http or an
\* https download link; a fetch that is answered with a deployment in which some
\* artifact declares neither "download" nor "download-http" fails, and otherwise it
\* returns the Update; no download and no opening of a stream ends in the panic
\* "Missing content link".
C26_EveryArtifactHasALink ==
    /\ \A u \in 1..Len(updates) :
          \A ca \in ArtifactsOf(updates[u].info) :
             \/ updates[u].info.deployment.chunks[ca[1]].artifacts[ca[2]].links.http.some
             \/ updates[u].info.deployment.chunks[ca[1]].artifacts[ca[2]].links.https.some
    /\ FetchedDescriptor =>
          IF HasLinklessArtifact(last.nets[1].body) THEN last.ret = ReqwestError
          ELSE last.ret.k = "Ok"
    /\ ud.pc = "Done" => ud.ret.k # "Panic"
    /\ last.op \in StreamOps => last.ret.k # "Panic"

\* A fetch was answered with a deployment whose second artifact declares only an
\* md5sum link, and has failed.
C26_Witness ==
    /\ FetchedDescriptor
    /\ HasLinklessArtifact(last.nets[1].body)
    /\ Len(last.nets[1].body["deployment"]["chunks"][1]["artifacts"]) = 2
    /\ last.ret = ReqwestError
    /\ updates = <<>>

\* The artifact with the indexes ca of the Update u of the caller, as deserialized.
InfoArtifact(u, ca) == updates[u].info.deployment.chunks[ca[1]].artifacts[ca[2]]

\* The href an artifact is to be fetched from: that of its secure link if it has one,
\* otherwise that of its plain link.
PreferredHref(artifact) ==
    IF artifact.links.https.some THEN artifact.links.https.v.content.href
    ELSE artifact.links.http.v.content.href

\* The Links of an artifact hold what the "_links" of its JSON declare.
LinksAsDeclared(links, json) ==
    /\ links.https.some <=> "download" \in DOMAIN json
    /\ links.https.some => links.https.v.content = json["download"]
    /\ links.http.some <=> "download-http" \in DOMAIN json
    /\ links.http.some => links.http.v.content = json["download-http"]

IsGetOf(reqs, href) ==
    Len(reqs) = 1 /\ reqs[1].method = "GET" /\ reqs[1].built /\ reqs[1].url = href

\* C27: the links of an artifact of a fetched Update are the "download" and the
\* "download-http" links the server declared; each artifact Update::download has
\* reached was requested with one GET, and each opening of a plain or checked stream
\* sends one GET: of the "download" link if the artifact declares one, otherwise of
\* its "download-http" link.
C27_SecureLinkPreferred ==
    /\ (FetchedDescriptor /\ last.ret.k = "Ok") =>
          \A ca \in ArtifactsOf(last.ret.v.info) :
             LinksAsDeclared(
                 last.ret.v.info.deployment.chunks[ca[1]].artifacts[ca[2]].links,
                 last.nets[1].body["deployment"]["chunks"][ca[1]]["artifacts"][ca[2]]["_links"])
    /\ ud.pc # "Idle" =>
          \A i \in 1..Len(ud.gets) :
             IsGetOf(ud.gets[i].reqs,
                     PreferredHref(InfoArtifact(ud.update, <<ud.gets[i].c, ud.gets[i].a>>)))
    /\ last.op \in StreamOps =>
          IsGetOf(Reqs(last.sends),
                  PreferredHref(InfoArtifact(last.args.update,
                                             <<last.args.chunk, last.args.artifact>>)))

\* An Update::download has requested an artifact with both links over https and one
\* with the plain link only over http, and a checked stream was then opened over
\* https on the artifact with both links.
C27_Witness ==
    /\ ud.pc = "Done" /\ Len(ud.gets) = 3
    /\ InfoArtifact(ud.update, <<1, 1>>).links.http.some
    /\ ud.gets[1].reqs[1].url = ArtifactHref("download", "f1")
    /\ ud.gets[2].reqs[1].url = ArtifactHref("download-http", "f2")
    /\ last.op = "Artifact::download_stream_with_sha256_check"
    /\ last.args.chunk = 1 /\ last.args.artifact = 1
    /\ last.sends[1].req.url = ArtifactHref("download", "f1")

ReadOps == UpdateReads \cup {"Chunk::artifacts"}

\* What a read of the deployment info is to return: the value held by info, and for
\* the two iterators one view per element, in the order of info.
ReadOf(op, args, me) ==
    CASE op = "Update::download_type" -> me.info.deployment.download
      [] op = "Update::update_type" -> me.info.deployment.update
      [] op = "Update::maintenance_window" -> me.info.deployment.maintenance_window
      [] op = "Update::chunks" ->
           [c \in 1..Len(me.info.deployment.chunks) |->
               [chunk |-> me.info.deployment.chunks[c], client |-> me.client]]
      [] op = "Chunk::artifacts" ->
           [a \in 1..Len(me.info.deployment.chunks[args.chunk].artifacts) |->
               [artifact |-> me.info.deployment.chunks[args.chunk].artifacts[a],
                client |-> me.client]]

\* The names of a Type and of a MaintenanceWindow in JSON.
WireType == [Skip |-> "skip", Attempt |-> "attempt", Forced |-> "forced",
             Available |-> "available", Unavailable |-> "unavailable"]

\* The info of an Update holds the types, the window, the chunk names and the file
\* names of the deployment the server has sent, in its order.
InfoAsSent(info, json) ==
    /\ JsonString(WireType[info.download]) = json["download"]
    /\ JsonString(WireType[info.update]) = json["update"]
    /\ info.maintenance_window.some <=> "maintenanceWindow" \in DOMAIN json
    /\ info.maintenance_window.some =>
          JsonString(WireType[info.maintenance_window.v]) = json["maintenanceWindow"]
    /\ Len(info.chunks) = Len(json["chunks"])
    /\ \A c \in 1..Len(info.chunks) :
          /\ info.chunks[c].name = json["chunks"][c]["name"]
          /\ Len(info.chunks[c].artifacts) = Len(json["chunks"][c]["artifacts"])
          /\ \A a \in 1..Len(info.chunks[c].artifacts) :
                info.chunks[c].artifacts[a].filename
                    = json["chunks"][c]["artifacts"][a]["filename"]

\* C28: the Update kept by the caller is never changed, by no download step, read or
\* feedback; right after fetch its info holds the deployment as the server sent it;
\* every call of download_type, update_type, maintenance_window, chunks and
\* Chunk::artifacts returns the value its info holds, the iterators one view per chunk
\* or artifact in the order of info, and hands no request to send().
C28_ReadsAreStableAndSendNothing ==
    /\ [][/\ Len(updates') >= Len(updates)
          /\ \A u \in 1..Len(updates) : updates'[u] = updates[u]]_vars
    /\ [][ncalls'.read # ncalls.read => sent' = sent /\ ud' = ud /\ fs' = fs]_vars
    /\ []((FetchedDescriptor /\ last.ret.k = "Ok") =>
             InfoAsSent(last.ret.v.info.deployment, last.nets[1].body["deployment"]))
    /\ [](last.op \in ReadOps =>
             /\ last.sends = <<>>
             /\ last.ret = Returned(ReadOf(last.op, last.args, updates[last.args.update])))

\* While an Update::download is writing its second artifact, chunks() is called and
\* returns the two chunks of the deployment, c1 before c2.
C28_Witness ==
    /\ ud.pc = "Write" /\ Len(ud.gets) = 2
    /\ last.op = "Update::chunks"
    /\ last.ret.k = "Value" /\ Len(last.ret.v) = 2
    /\ last.ret.v[1].chunk.name = "c1" /\ last.ret.v[2].chunk.name = "c2"
    /\ sent = <<sent[1], sent[2], sent[3], sent[4]>>

\* One DownloadedArtifact per artifact of the chunks from chunk c on, in chunk order
\* and within a chunk in artifact order, the file of each being dir/<chunk>/<file>.
RECURSIVE DownloadedFrom(_, _, _)
DownloadedFrom(chunks, dir, c) ==
    IF c > Len(chunks) THEN <<>>
    ELSE [a \in 1..Len(chunks[c].artifacts) |->
             [file |-> dir \o <<chunks[c].name, chunks[c].artifacts[a].filename>>,
              hashes |-> chunks[c].artifacts[a].hashes]]
         \o DownloadedFrom(chunks, dir, c + 1)

DownloadOk == ud.pc = "Done" /\ ud.ret.k = "Ok"

\* C24: an Update::download that returns Ok has requested every artifact of the
\* update and returns one DownloadedArtifact per artifact, in chunk order and within
\* a chunk in artifact order, each with the file dir/<chunk name>/<filename> and the
\* declared hashes of its artifact.
C24_OneDownloadedArtifactPerArtifact ==
    DownloadOk =>
       /\ ud.ret.v = DownloadedFrom(updates[ud.update].info.deployment.chunks, ud.dir, 1)
       /\ Len(ud.ret.v) = Cardinality(ArtifactsOf(updates[ud.update].info))
       /\ Len(ud.gets) = Len(ud.ret.v)
       /\ \A i \in 1..Len(ud.gets) :
             ud.ret.v[i].file
                 = ud.dir \o <<updates[ud.update].info.deployment.chunks[ud.gets[i].c].name,
                               InfoArtifact(ud.update, <<ud.gets[i].c, ud.gets[i].a>>).filename>>

\* The download of the update with the chunks c1 (f1, f2) and c2 (f1) has returned
\* d/c1/f1, d/c1/f2 and d/c2/f1.
C24_Witness ==
    /\ DownloadOk
    /\ Len(ud.ret.v) = 3
    /\ ud.ret.v[1].file = <<"d", "c1", "f1">>
    /\ ud.ret.v[2].file = <<"d", "c1", "f2">>
    /\ ud.ret.v[3].file = <<"d", "c2", "f1">>

DownloadFailed == ud.pc = "Done" /\ ud.ret.k # "Ok"

\* The file of the i-th artifact in the order of the download.
FileInOrder(i) ==
    DownloadedFrom(updates[ud.update].info.deployment.chunks, ud.dir, 1)[i].file

C25_WitnessGetFailed ==
    /\ DownloadFailed
    /\ Len(ud.gets) = 2 /\ ~ud.gets[2].ok /\ Len(ud.gets[2].reqs) = 1
    /\ DOMAIN fs.files = {<<"d", "c1", "f1">>}

\* The download is inside Artifact::download, after File::create.
InArtifact == ud.pc \in {"Chunk", "Write"}

\* C29: once Artifact::download has created the file, its directory and the
\* ancestors of it exist; whenever the next chunk is about to be requested, the file
\* dir/filename holds every chunk received so far, in order; and when Update::download
\* returns Ok, the file of each DownloadedArtifact holds the concatenation of the
\* chunks of its body in the order of arrival.
C29_ChunksWrittenAsTheyArrive ==
    /\ InArtifact =>
          /\ CurrentFile \in DOMAIN fs.files
          /\ \A n \in 1..Len(CurrentDir) : SubSeq(CurrentDir, 1, n) \in fs.dirs
    /\ ud.pc = "Chunk" => fs.files[CurrentFile] = Concat(ud.out)
    /\ DownloadOk =>
          \A i \in 1..Len(ud.ret.v) : fs.files[ud.ret.v[i].file] = ud.bodies[i]

----------------------------------------------------------------------------
(* Two checksum-verifying streams of two artifacts of one Update.          *)

\* The bodies the two artifacts are served with: chunks, a chunk that is not ready
\* at first, and a transport error after a chunk.
PairBodies ==
    {<<OkItem(<<1>>), OkItem(<<0, 1>>)>>,
     <<PollPending, OkItem(<<0, 1>>)>>,
     <<OkItem(<<0>>), TransportError>>}

\* The hashes an artifact declares: those of the bytes served, or those of other bytes.
PairHashes(content) ==
    {h \in DeclaredHashes(content) :
        \/ \A alg \in ChecksumTypes : HashOf(h, alg) = HexDigest(alg, content)
        \/ \A alg \in ChecksumTypes : HashOf(h, alg) # HexDigest(alg, content)}

\* The stream download_stream_with_<algo>_check returns for the second artifact.
OpenOther(items, h, alg) ==
    [pc |-> "Open", body |-> items, hashes |-> h,
     checked |-> download_stream_with_check(alg, h), emitted |-> <<>>, polls |-> 0]

\* A slip: the two streams feed and check one DownloadHasher, that of the first.
PollOther_SharedHasher ==
    /\ other.pc = "Open"
    /\ other.polls < MaxPolls
    /\ LET r == download_stream(Stream_poll_next(other.body, other.checked.stream))
           res == DownloadStreamHash_poll_next(
                      [other.checked EXCEPT !.hasher = checked.hasher], r)
       IN  /\ other' = [other EXCEPT
                  !.checked.stream = Stream_advance(other.body, other.checked.stream),
                  !.emitted = IF res.ret.k = "Pending" THEN @ ELSE Append(@, res.ret),
                  !.polls = @ + 1]
           /\ checked' = [checked EXCEPT !.hasher = res.me.hasher]
    /\ UNCHANGED <<body, hashes, emitted, polls, dropped, plain, plainOut,
                   dl, file, chk, checkRet>>
    /\ UNCHANGED <<sleepVars, server, peers>>
    /\ UNCHANGED ddiVars
    /\ UNCHANGED diskVars

\* The consumer of the second stream polls its DownloadStreamHash once.
PollOther ==
    /\ other.pc = "Open"
    /\ other.polls < MaxPolls
    /\ LET r == download_stream(Stream_poll_next(other.body, other.checked.stream))
           res == DownloadStreamHash_poll_next(other.checked, r)
       IN  other' = [other EXCEPT
               !.checked = [res.me EXCEPT
                               !.stream = Stream_advance(other.body, other.checked.stream)],
               !.emitted = IF res.ret.k = "Pending" THEN @ ELSE Append(@, res.ret),
               !.polls = @ + 1]
    /\ UNCHANGED streamVars
    /\ UNCHANGED <<sleepVars, server, peers>>
    /\ UNCHANGED ddiVars
    /\ UNCHANGED diskVars

\* Both streams were opened, each on its artifact with its algorithm, and neither
\* has been polled.
InitTwoStreams ==
    /\ body \in PairBodies
    /\ hashes \in PairHashes(Concat(OkChunks(body)))
    /\ \E alg \in ChecksumTypes : checked = download_stream_with_check(alg, hashes)
    /\ \E items \in PairBodies :
          \E h \in PairHashes(Concat(OkChunks(items))) :
             \E alg \in ChecksumTypes : other = OpenOther(items, h, alg)
    /\ emitted = <<>>
    /\ polls = 0
    /\ dropped = FALSE
    /\ plain = 1
    /\ plainOut = <<>>
    /\ dl = [pc |-> "Start", pos |-> 1, hashes |-> NoHashes]
    /\ file = NoFile
    /\ chk = [pc |-> "Idle", alg |-> "-", off |-> 0, hasher |-> new_md5(<<>>),
              runs |-> 0, prev |-> NotRun]
    /\ checkRet = NotRun
    /\ sleep = <<>>
    /\ sleepRet = NoSleep
    /\ DdiUnused
    /\ NothingOnDisk
    /\ server = NoServer
    /\ peers = <<>>

\* The polls of the two streams, in any interleaving.
NextTwoStreams ==
    \/ PollChecked
    \/ PollOther

SpecTwoStreams == InitTwoStreams /\ [][NextTwoStreams]_vars

----------------------------------------------------------------------------
(* Further claims: the digest of a stream, streams and clients side by     *)
(* side, the sleep arithmetic, the disk, and the mock server.              *)

\* The digest of the bytes of the Ok chunks among items, fed in order.
DigestOfEmitted(alg, items) == Digest_update(Digest_new(alg), Concat(OkChunks(items)))

\* C35: at every moment the running digest of the DownloadStreamHash is the digest of
\* the bytes of the Ok chunks it has emitted so far, each once and in the order of
\* emission; a poll that emits no Ok chunk (the inner stream is pending, fails or
\* has ended) leaves the digest unchanged; and each end the stream reports is a clean
\* end exactly if the hexadecimal digest of the bytes emitted before it is the
\* declared hash.
C35_DigestIsOfEmittedChunks ==
    /\ [](checked.hasher.hasher = DigestOfEmitted(StreamAlg, emitted))
    /\ [][polls' # polls =>
            \/ /\ Len(emitted') = Len(emitted) + 1
               /\ emitted'[Len(emitted')].k = "Ok"
            \/ /\ checked'.hasher = checked.hasher
               /\ OkChunks(emitted') = OkChunks(emitted)]_vars
    /\ [](\A i \in 1..Len(emitted) :
             IsEnd(emitted[i]) =>
                (emitted[i].k = "None" <=>
                    LowerHex(Digest_finalize(DigestOfEmitted(StreamAlg, SubSeq(emitted, 1, i))))
                        = checked.hasher.expected))

\* A body of a pending poll and a chunk of two bytes was read to its end: the stream
\* waited, emitted the chunk and ended, cleanly or with a checksum error.
C35_Witness ==
    /\ Len(body) = 2 /\ body[1].k = "Pending" /\ body[2] = OkItem(<<0, 1>>)
    /\ polls = 3
    /\ Len(emitted) = 2 /\ emitted[1] = OkItem(<<0, 1>>) /\ IsEnd(emitted[2])
    /\ checked.hasher.hasher # Digest_new(StreamAlg)

\* The three components of the sleep field each parse as u64.
ThreeU64Components ==
    /\ Len(split(sleep)) = 3
    /\ \A i \in 1..3 : u64_from_str(split(sleep)[i]).ok

\* C36 (as claimed): polling_sleep never overflows: for every sleep field whose three
\* components each parse as u64, no operation of h * 60 * 60 + m * 60 + s leaves 64
\* bits, so the call neither panics nor returns a wrapped number of seconds.
C36_SleepArithmeticNeverOverflows ==
    (SleepCalled /\ ThreeU64Components) =>
        /\ sleepRet # Panicked
        /\ FitsU64(ExactSeconds)
        /\ sleepRet = OkDuration(ExactSeconds)

\* The directory and the file of the i-th artifact requested by the download.
DirOfGet(i) == ud.dir \o <<updates[ud.update].info.deployment.chunks[ud.gets[i].c].name>>
FileOfGet(i) ==
    DirOfGet(i) \o <<InfoArtifact(ud.update, <<ud.gets[i].c, ud.gets[i].a>>).filename>>

\* An artifact's download_response has just failed.
GetFailedStep ==
    /\ ud.pc = "Get"
    /\ Len(ud'.gets) = Len(ud.gets) + 1
    /\ ~ud'.gets[Len(ud'.gets)].ok

\* C37: Artifact::download touches the file system only after its GET was answered
\* with success: the step in which the GET fails (no response, or a status that is
\* not 2xx) changes neither a directory nor a file nor the writes under way and
\* returns the error; and every file and every directory on disk is the file, the
\* directory or an ancestor of the directory of an artifact whose GET succeeded.
C37_NoFileBeforeSuccessfulGet ==
    /\ [][GetFailedStep =>
            /\ fs' = fs /\ pend' = pend
            /\ ud'.pc = "Done" /\ ud'.ret = ReqwestError]_vars
    /\ [](ud.pc = "Idle" => fs = NoFiles /\ pend = {})
    /\ [](ud.pc # "Idle" =>
            /\ \A p \in DOMAIN fs.files :
                  \E i \in 1..Len(ud.gets) : ud.gets[i].ok /\ p = FileOfGet(i)
            /\ \A d \in fs.dirs :
                  \E i \in 1..Len(ud.gets) : ud.gets[i].ok /\ IsPrefix(d, DirOfGet(i)))

\* The GET of the third artifact, the only one of chunk c2, has failed after the two
\* of chunk c1 were downloaded: d/c1 exists, d/c2 and d/c2/f1 do not.
C37_Witness ==
    /\ DownloadFailed
    /\ Len(ud.gets) = 3 /\ ~ud.gets[3].ok /\ ud.gets[3].reqs # <<>>
    /\ FileOfGet(3) = <<"d", "c2", "f1">>
    /\ <<"d", "c1">> \in fs.dirs
    /\ <<"d", "c2">> \notin fs.dirs
    /\ <<"d", "c2", "f1">> \notin DOMAIN fs.files

\* C38 (as claimed): once an Update::download has returned Ok and every write it
\* handed over has been carried out, the file of each DownloadedArtifact it returned
\* holds the body of the artifact it was returned for, also when two artifacts of a
\* chunk share a file name or two chunks share a name.
C38_EachFileHoldsItsOwnBody ==
    (DownloadOk /\ pend = {}) =>
        \A i \in 1..Len(ud.ret.v) :
           /\ ud.ret.v[i].file \in DOMAIN fs.files
           /\ fs.files[ud.ret.v[i].file] = ud.bodies[i]

\* C33 (as claimed): poll_hits() of a target is the number of polls its client has
\* made since the target was added, whatever calls of request_config and
\* push_deployment came between them.
C33_PollHitsCountsEveryPoll ==
    \A name \in TargetNames : Target_poll_hits(server, name) = peers[name].polls

\* The poll request of the client of a target, and what the server would answer it.
PollRequest(name) == Client_poll(peers[name].client, SendError).sends[1].req
PollAnswer(name) == MockServer_handle(server, PollRequest(name), NoBody).net

\* The _links of a poll answer are those of the pending actions of the target: a
\* configData link if the configuration was requested, a deploymentBase link to the
\* deployment pushed last if one was pushed, and nothing else.
LinksAsPending(json, name) ==
    /\ "_links" \in DOMAIN json
    /\ json["_links"] =
          LinksJson(IF peers[name].config
                    THEN Some(MockServer_url(request_config_path(name))) ELSE None,
                    IF peers[name].deployed.some
                    THEN Some(MockServer_url(push_deployment_path(name, peers[name].deployed.v)))
                    ELSE None,
                    None)

\* The links of the Reply a poll has returned, by the same rule.
ReplyAsPending(ret, name) ==
    /\ ret.k = "Ok"
    /\ ret.v.reply.links.some
    /\ ret.v.reply.links.v.config_data.some <=> peers[name].config
    /\ ret.v.reply.links.v.deployment_base.some <=> peers[name].deployed.some
    /\ ~ret.v.reply.links.v.cancel_action.some

\* C34: after any calls of request_config and push_deployment on the targets, exactly
\* one mock answers the poll of each target, and its answer, which the next poll
\* gets, has a configData link exactly if the configuration was requested and a
\* deploymentBase link exactly if a deployment was pushed (to the one pushed last);
\* a call for one kind of pending action leaves the other link as it was.
C34_PollReplyShowsPendingActions ==
    /\ [](\A name \in TargetNames :
             /\ Cardinality(Matching(server, PollRequest(name), NoBody)) = 1
             /\ PollAnswer(name).status = 200
             /\ LinksAsPending(PollAnswer(name).body, name))
    /\ [][\A name \in TargetNames :
             peers'[name].polls = peers[name].polls + 1 =>
                ReplyAsPending(peers'[name].ret.v, name)]_vars

\* The configuration was requested of Target1, then a deployment was pushed to it,
\* and the poll after that has returned a Reply with both links.
C34_Witness ==
    /\ peers["Target1"].config /\ peers["Target1"].deployed = Some("11")
    /\ peers["Target1"].polls = 1
    /\ peers["Target1"].ret.v.k = "Ok"
    /\ Reply_config_data_request(peers["Target1"].ret.v.v).ret.some
    /\ Reply_update(peers["Target1"].ret.v.v).ret.some
    /\ Len(server.mocks) = 7

\* The client of a target has just sent feedback through the Update of a deployment
\* for which expect_feedback had been called on the target.
ExpectedFeedbackStep(name) ==
    /\ peers'[name].calls = peers[name].calls + 1
    /\ peers'[name].ret.op = "feedback"
    /\ peers[name].expect.some
    /\ peers[name].update.some
    /\ peers[name].expect.v.id = peers[name].update.v.info.id
    /\ peers[name].deployed = Some(peers[name].expect.v.id)

\* C39 (as claimed): with any tenant of the mock server, the feedback a client sends
\* for a deployment that was pushed to its target reaches the mock that
\* expect_feedback has made for that deployment: the path of the POST is the path
\* that mock listens on, the call returns Ok, and the hits of the mock go up by one.
C39_FeedbackReachesExpectedMock ==
    [][\A name \in TargetNames :
          ExpectedFeedbackStep(name) =>
             /\ peers'[name].req.some
             /\ Url_parse(peers'[name].req.v.url).v.path
                   = server.mocks[peers[name].expect.v.mock].when.path
             /\ peers'[name].ret.v = OkUnit
             /\ MockRef_hits(server', peers[name].expect.v.mock)
                   = MockRef_hits(server, peers[name].expect.v.mock) + 1]_vars

\* The URLs a client has of its own: its base URL, the links of its last Reply, the
\* feedback URL of the Update it has fetched and the download links of its artifacts.
ReplyLinks(r) ==
    IF r = NoReply THEN {}
    ELSE {h.ret.v.url : h \in {x \in {Reply_config_data_request(r), Reply_update(r)} : x.ret.some}}

UpdateLinks(u) ==
    IF ~u.some THEN {}
    ELSE {u.v.url \o <<"/", "feedback">>}
         \cup {l.v.content.href :
                  l \in {x \in UNION {{a.artifact.links.https, a.artifact.links.http} :
                                         a \in {ArtifactsIn(Update_chunks(u.v))[i] :
                                                   i \in DOMAIN ArtifactsIn(Update_chunks(u.v))}} :
                            x.some}}

OwnUrls(name) ==
    {Url_to_string(peers[name].client.base_url)}
    \cup ReplyLinks(peers[name].reply) \cup UpdateLinks(peers[name].update)

\* C32: the clients of two targets do not interfere: whatever the order of their
\* polls, fetches, uploads, feedbacks and downloads, every request of a client goes
\* to its base URL, to a link of its own last Reply or of the Update it fetched
\* through it, and carries the TargetToken of its own target; and each call returns
\* to the client what it returns on a server on which its target is alone.
C32_ClientsDoNotInterfere ==
    /\ [][\A name \in TargetNames :
             peers'[name].calls = peers[name].calls + 1 =>
                /\ peers'[name].req.some
                /\ peers'[name].req.v.url \in OwnUrls(name)
                /\ peers'[name].req.v.auth = <<"TargetToken ", server.targets[name].key>>
                /\ \A n \in TargetNames \ {name} : peers'[n] = peers[n]]_vars
    /\ [](\A name \in TargetNames : peers[name].ret = peers[name].aloneRet)

\* Both targets were pushed a deployment with an artifact f1, of different bytes, the
\* one of Target2 first; the client of Target1 has polled, fetched and requested f1
\* and was answered with the bytes of its own deployment.
C32_Witness ==
    /\ peers["Target1"].deployed = Some("10") /\ peers["Target2"].deployed = Some("11")
    /\ server.targets["Target2"].deployment.v.mock < server.targets["Target1"].deployment.v.mock
    /\ peers["Target1"].ret.op = "download"
    /\ peers["Target1"].ret.v.k = "Ok"
    /\ peers["Target1"].ret.v.v.body = BytesBody(<<OkItem(<<1>>)>>)
    /\ peers["Target2"].calls >= 1

\* What a DownloadStreamHash over `items` has returned, and what it has become, after
\* n polls with nothing else running.
RECURSIVE RunAlone(_, _, _, _)
RunAlone(items, me, out, n) ==
    IF n = 0 THEN [checked |-> me, emitted |-> out]
    ELSE LET r == download_stream(Stream_poll_next(items, me.stream))
             res == DownloadStreamHash_poll_next(me, r)
         IN  RunAlone(items,
                      [res.me EXCEPT !.stream = Stream_advance(items, me.stream)],
                      IF res.ret.k = "Pending" THEN out ELSE Append(out, res.ret),
                      n - 1)

Alone(items, h, me, n) ==
    RunAlone(items, download_stream_with_check(me.hasher.error, h), <<>>, n)

====
